---- MODULE Spec2Model ----
(***************************************************************************)
(* Posting agent of jyouterean/suityan: one cron-driven run loads the      *)
(* state file, decides whether to post, generates and validates a text,    *)
(* publishes it and writes the state file back.                            *)
(*                                                                         *)
(* Time is counted in hours since the epoch (JST).  A date string          *)
(* "YYYY-MM-DD" is the pair <<month index, day of month>>, a month string  *)
(* "YYYY-MM" the 1-tuple <<month index>>, null/undefined strings are <<>>. *)
(* A text is a sequence of code points.  Math.random() draws a permille    *)
(* value from RandomDraws.                                                 *)
(***************************************************************************)
EXTENDS Integers, Sequences, FiniteSets, TLC

VARIABLES
    now,          \* wall clock, hours since the epoch (JST)
    disk,         \* state/state.json: [kind |-> "absent" | "ok" | "corrupt", state |-> AgentState]
    pc,           \* position of the current run inside main()
    state,        \* main(): let state
    loaded,       \* what loadState() returned to this run
    disk0,        \* the state file as this run's loadState() found it
    slot,         \* main(): const slot
    imagePath,    \* main(): imagePath !== null
    tweetText,    \* main(): tweetText (<<>> is null)
    usedFallback, \* main(): usedFallback
    attempt,      \* main(): loop variable of the generation loop
    mediaId,      \* main(): mediaId !== null
    exitCode,     \* process exit code of the finished run (-1 while running)
    obs,          \* what the run did: calls to the capabilities and saves
    runs,         \* number of finished runs
    ticks,        \* number of clock advances
    limit,        \* number of runs the scheduler starts
    call,         \* the arguments of a call of a function of core/ (<<>> is none)
    result,       \* what that call returned (<<>> is not yet)
    other         \* a second process of main() on the same state file

vars == <<now, disk, pc, state, loaded, disk0, slot, imagePath, tweetText,
          usedFallback, attempt, mediaId, exitCode, obs, runs, ticks, limit, call, result, other>>

(***************************************************************************)
(* Bounds                                                                  *)
(***************************************************************************)
MaxRuns == 1
MaxTicks == 3
DaysPerMonth == 2
QuotaRuns == 1

\* the hours of the day at which the clock is observed
SampleHours == {0, 7, 12, 23}

\* values Math.random() * 1000 takes: the least and the greatest
RandomDraws == {0, 999}

NULL == <<>>

(***************************************************************************)
(* utils/jst.ts                                                            *)
(***************************************************************************)
HoursPerDay == 24

getJSTHour(t) == t % HoursPerDay

DayOf(t) == t \div HoursPerDay

getJSTDateString(t) == <<DayOf(t) \div DaysPerMonth, DayOf(t) % DaysPerMonth>>

getJSTTimeString(t) == <<getJSTHour(t)>>

getJSTTimestamp(t) == getJSTDateString(t) \o getJSTTimeString(t)

isSameJSTDay(dateStr, t) ==
    IF dateStr = NULL THEN FALSE ELSE dateStr = getJSTDateString(t)

\* getJSTDateString().slice(0, 7)
MonthOfDate(dateStr) == <<dateStr[1]>>

(***************************************************************************)
(* Texts and configuration files                                           *)
(***************************************************************************)
\* config/logistics_words.txt, config/forbidden.txt
LOGISTICS_WORDS == {<<"h", "t">>, <<"n", "m">>}
FORBIDDEN_WORDS == {<<"x", "x">>}

TextOk == <<"h", "t", "o", "w">>
TextPlain == <<"n", "e", "r", "u">>
TextNg == <<"h", "t", "X", "x">>
TextFb == <<"n", "m", "k", "g">>

\* what the generator can answer
GenTexts == {TextOk, TextPlain, TextNg}
GenMoods == {"happy"}

\* config/fallback_tweets.txt as it may be found
FallbackPools == {<<>>, <<TextFb>>}

(***************************************************************************)
(* core/state.ts                                                           *)
(***************************************************************************)
randomDailyMaxPosts_from14(r1, r2) ==
    IF r1 < 300 THEN ((r2 * 5) \div 1000) + 8 ELSE ((r2 * 3) \div 1000) + 14

\* Math.floor(Math.random() * 5) + 8 with probability 0.3, else Math.floor(Math.random() * 3) + 13
randomDailyMaxPosts(r1, r2) ==
    IF r1 < 300 THEN ((r2 * 5) \div 1000) + 8 ELSE ((r2 * 3) \div 1000) + 13

\* the pairs of draws of a roll that the runs try: the least and the greatest result
RollDraws == {<<0, 0>>, <<999, 999>>}

DailyMaxRolls == {randomDailyMaxPosts(d[1], d[2]) : d \in RollDraws}

DEFAULT_STATE ==
    [ mood                          |-> "neutral",
      energy                        |-> 70,
      last_posts                    |-> <<>>,
      today_slots_used              |-> <<>>,
      today_post_count              |-> 0,
      today_goodnight_posted        |-> FALSE,
      today_simple_goodnight_posted |-> FALSE,
      today_morning_posted          |-> FALSE,
      today_max_posts               |-> 15,
      today_narrative               |-> <<>>,
      month_total_posts             |-> 0,
      month_image_posts             |-> 0,
      month_string                  |-> NULL,
      last_image_date               |-> NULL,
      last_post_date                |-> NULL,
      last_post_time                |-> NULL,
      last_post_timestamp_ms        |-> 0,
      today_skipped                 |-> FALSE,
      today_skip_count              |-> 0,
      ng_retry_count                |-> 0,
      fallback_used_count           |-> 0,
      created_at                    |-> NULL,
      updated_at                    |-> NULL ]

\* saveState: stamps updated_at on the caller's object and writes the file
saveState(s, t) == [s EXCEPT !.updated_at = getJSTTimestamp(t)]

DayRollover_keepsEnergy(s, t, roll) ==
    IF isSameJSTDay(s.last_post_date, t) THEN s
    ELSE [s EXCEPT !.today_slots_used = <<>>,
                   !.today_post_count = 0,
                   !.today_goodnight_posted = FALSE,
                   !.today_simple_goodnight_posted = FALSE,
                   !.today_morning_posted = FALSE,
                   !.today_skipped = FALSE,
                   !.today_skip_count = 0,
                   !.today_max_posts = roll,
                   !.today_narrative = <<>>]

DayRollover_keepsSlots(s, t, roll) ==
    IF isSameJSTDay(s.last_post_date, t) THEN s
    ELSE [s EXCEPT !.today_post_count = 0,
                   !.today_goodnight_posted = FALSE,
                   !.today_simple_goodnight_posted = FALSE,
                   !.today_morning_posted = FALSE,
                   !.today_skipped = FALSE,
                   !.today_skip_count = 0,
                   !.today_max_posts = roll,
                   !.today_narrative = <<>>,
                   !.energy = 80]

\* loadState, lines 93-106: the day rollover
DayRollover(s, t, roll) ==
    IF isSameJSTDay(s.last_post_date, t) THEN s
    ELSE [s EXCEPT !.today_slots_used = <<>>,
                   !.today_post_count = 0,
                   !.today_goodnight_posted = FALSE,
                   !.today_simple_goodnight_posted = FALSE,
                   !.today_morning_posted = FALSE,
                   !.today_skipped = FALSE,
                   !.today_skip_count = 0,
                   !.today_max_posts = roll,
                   !.today_narrative = <<>>,
                   !.energy = 80]

MonthRollover_keepsTotal(s, t) ==
    LET currentMonth == MonthOfDate(getJSTDateString(t)) IN
    IF s.month_string # currentMonth
    THEN [s EXCEPT !.month_image_posts = 0,
                   !.month_string = currentMonth]
    ELSE s

\* loadState, lines 128-134: the month rollover
MonthRollover(s, t) ==
    LET currentMonth == MonthOfDate(getJSTDateString(t)) IN
    IF s.month_string # currentMonth
    THEN [s EXCEPT !.month_total_posts = 0,
                   !.month_image_posts = 0,
                   !.month_string = currentMonth]
    ELSE s

loadState_staleCreatedAt(d, t, roll) ==
    IF d.kind = "absent"
    THEN LET newState == [DEFAULT_STATE EXCEPT !.created_at = getJSTTimestamp(t),
                                               !.today_max_posts = roll]
         IN [state |-> saveState(newState, t),
             disk  |-> [kind |-> "ok", state |-> saveState(newState, t)]]
    ELSE IF d.kind = "corrupt"
    THEN [state |-> [DEFAULT_STATE EXCEPT !.today_max_posts = roll],
          disk  |-> d]
    ELSE [state |-> MonthRollover(DayRollover(d.state, t, roll), t),
          disk  |-> d]

\* loadState: the state it returns and the file it leaves behind.
\* A state written by this version has every field, so the migration of
\* lines 108-126 changes nothing; month_string undefined is dropped by
\* JSON.stringify and read back as undefined.
loadState(d, t, roll) ==
    IF d.kind = "absent"
    THEN LET newState == [DEFAULT_STATE EXCEPT !.created_at = getJSTTimestamp(t),
                                               !.today_max_posts = roll]
         IN [state |-> saveState(newState, t),
             disk  |-> [kind |-> "ok", state |-> saveState(newState, t)]]
    ELSE IF d.kind = "corrupt"
    THEN [state |-> [DEFAULT_STATE EXCEPT !.created_at = getJSTTimestamp(t),
                                          !.today_max_posts = roll],
          disk  |-> d]
    ELSE [state |-> MonthRollover(DayRollover(d.state, t, roll), t),
          disk  |-> d]

\* updateStateAfterPost; lowMood is lowMoods[Math.floor(Math.random() * 3)]
LowMoods == {"tired", "frustrated", "melancholy"}

Max(a, b) == IF a >= b THEN a ELSE b

shortText(text) ==
    IF Len(text) > 20 THEN SubSeq(text, 1, 20) \o <<"...">> ELSE text

pushPost_append(s, newPost) ==
    [s EXCEPT !.last_posts = SubSeq(s.last_posts \o <<newPost>>, 1,
                                    IF Len(s.last_posts) + 1 > 7 THEN 7 ELSE Len(s.last_posts) + 1)]

\* updateStateAfterPost, lines 157-165: the newest 7 posts
pushPost(s, newPost) ==
    [s EXCEPT !.last_posts = SubSeq(<<newPost>> \o s.last_posts, 1,
                                    IF Len(s.last_posts) + 1 > 7 THEN 7 ELSE Len(s.last_posts) + 1)]

countPost_imageAlways(s, sl, hasImage, nowDate) ==
    [s EXCEPT !.today_slots_used = Append(s.today_slots_used, sl),
              !.today_post_count = s.today_post_count + 1,
              !.month_total_posts = s.month_total_posts + 1,
              !.month_image_posts = s.month_image_posts + 1,
              !.last_image_date = IF hasImage THEN nowDate ELSE s.last_image_date]

\* updateStateAfterPost, lines 166-173: the counters
countPost(s, sl, hasImage, nowDate) ==
    [s EXCEPT !.today_slots_used = Append(s.today_slots_used, sl),
              !.today_post_count = s.today_post_count + 1,
              !.month_total_posts = s.month_total_posts + 1,
              !.month_image_posts = IF hasImage THEN s.month_image_posts + 1
                                    ELSE s.month_image_posts,
              !.last_image_date = IF hasImage THEN nowDate ELSE s.last_image_date]

stampPost_noMorning(s, sl, t) ==
    [s EXCEPT !.today_goodnight_posted = IF sl = "goodnight" THEN TRUE ELSE s.today_goodnight_posted,
              !.today_simple_goodnight_posted =
                  IF sl = "simple_goodnight" THEN TRUE ELSE s.today_simple_goodnight_posted,
              !.last_post_date = getJSTDateString(t),
              !.last_post_time = getJSTTimeString(t),
              !.last_post_timestamp_ms = t]

\* updateStateAfterPost, lines 175-187: the per-day flags and the last-post stamps
stampPost(s, sl, t) ==
    [s EXCEPT !.today_goodnight_posted = IF sl = "goodnight" THEN TRUE ELSE s.today_goodnight_posted,
              !.today_simple_goodnight_posted =
                  IF sl = "simple_goodnight" THEN TRUE ELSE s.today_simple_goodnight_posted,
              !.today_morning_posted = IF sl = "morning" THEN TRUE ELSE s.today_morning_posted,
              !.last_post_date = getJSTDateString(t),
              !.last_post_time = getJSTTimeString(t),
              !.last_post_timestamp_ms = t]

\* updateStateAfterPost, lines 189-191: the narrative
extendNarrative(s, text) ==
    [s EXCEPT !.today_narrative =
        s.today_narrative \o (IF s.today_narrative # <<>> THEN <<"->">> ELSE <<>>)
                          \o shortText(text)]

tire_noFloor(s, sl, lowMood) ==
    LET energy == s.energy - 10
    IN [s EXCEPT !.energy = energy,
                 !.mood = IF energy < 20 THEN "tired"
                          ELSE IF energy < 40 THEN lowMood
                          ELSE IF sl = "night_ero" THEN "lonely"
                          ELSE s.mood]

\* updateStateAfterPost, lines 193-203: energy and the default mood
tire(s, sl, lowMood) ==
    LET energy == Max(10, s.energy - 10)
    IN [s EXCEPT !.energy = energy,
                 !.mood = IF energy < 20 THEN "tired"
                          ELSE IF energy < 40 THEN lowMood
                          ELSE IF sl = "night_ero" THEN "lonely"
                          ELSE s.mood]

updateStateAfterPost(s, text, sl, hasImage, t, lowMood) ==
    LET newPost == [text |-> text, slot |-> sl, timestamp |-> getJSTTimestamp(t),
                    hasImage |-> hasImage]
    IN tire(extendNarrative(stampPost(countPost(pushPost(s, newPost), sl, hasImage,
                                                getJSTDateString(t)), sl, t), text),
            sl, lowMood)

\* minutesSinceLastPost when Date.now() is m minutes after the epoch: -1 is null
minutesSinceLastPostAt(s, m) ==
    IF s.last_post_timestamp_ms = 0 THEN -1 ELSE m - s.last_post_timestamp_ms * 60

\* minutesSinceLastPost on the hour
minutesSinceLastPost(s, t) == minutesSinceLastPostAt(s, t * 60)

incrementNgRetry(s) == [s EXCEPT !.ng_retry_count = s.ng_retry_count + 1]

incrementFallbackUsed(s) == [s EXCEPT !.fallback_used_count = s.fallback_used_count + 1]

shouldPostImageProb_lowTier10(s) ==
    IF s.month_total_posts < 10 THEN 100
    ELSE IF s.month_image_posts * 100 < 10 * s.month_total_posts THEN 300
    ELSE 20

\* shouldPostImage: the probability (permille) of the draw, then the draw
shouldPostImageProb(s) ==
    IF s.month_total_posts < 10 THEN 100
    ELSE IF s.month_image_posts * 100 < 8 * s.month_total_posts THEN 300
    ELSE IF s.month_image_posts * 100 >= 10 * s.month_total_posts THEN 20
    ELSE 100

shouldPostImage(s, r) == r < shouldPostImageProb(s)

(***************************************************************************)
(* core/validate.ts                                                        *)
(***************************************************************************)
Includes(text, w) ==
    \E i \in 1..(Len(text) - Len(w) + 1) : SubSeq(text, i, i + Len(w) - 1) = w

toLowerCase(text) == [i \in 1..Len(text) |-> IF text[i] = "X" THEN "x" ELSE text[i]]

EmojiChars == {"@"}
Whitespace == {" "}

checkLength(text) == Len(text) <= 140

countEmoji(text) == Cardinality({i \in 1..Len(text) : text[i] \in EmojiChars})

checkEmoji_le3(text) == countEmoji(text) <= 3

checkEmoji(text) == countEmoji(text) <= 2

checkForbiddenWords(text) ==
    {w \in FORBIDDEN_WORDS : Includes(toLowerCase(text), toLowerCase(w))} = {}

checkLogisticsWord(text) == {w \in LOGISTICS_WORDS : Includes(text, w)} # {}

stripWhitespace(text) == SelectSeq(text, LAMBDA c : c \notin Whitespace)

getBigrams(text) ==
    LET chars == stripWhitespace(text)
    IN {<<chars[i], chars[i + 1]>> : i \in 1..(Len(chars) - 1)}

jaccardSimilarity_sumSizes(set1, set2) ==
    IF set1 \cup set2 = {} THEN <<0, 1>>
    ELSE <<Cardinality(set1 \cap set2), Cardinality(set1) + Cardinality(set2)>>

\* jaccardSimilarity as the fraction <<numerator, denominator>>; 0 is <<0, 1>>
jaccardSimilarity(set1, set2) ==
    IF set1 \cup set2 = {} THEN <<0, 1>>
    ELSE <<Cardinality(set1 \cap set2), Cardinality(set1 \cup set2)>>

FracGt(a, b) == a[1] * b[2] > b[1] * a[2]

\* checkSimilarity, lines 112-119: the loop keeps the first post whose similarity
\* is above 0 and above that of every earlier post and not below that of any later one
checkSimilarity(text, recentPosts, threshold) ==
    IF Len(recentPosts) = 0
    THEN [valid |-> TRUE, maxSimilarity |-> <<0, 1>>, mostSimilar |-> NULL]
    ELSE LET newBigrams == getBigrams(text)
             sims == [i \in 1..Len(recentPosts) |->
                         jaccardSimilarity(newBigrams, getBigrams(recentPosts[i].text))]
             kept == {i \in 1..Len(recentPosts) :
                         /\ sims[i][1] > 0
                         /\ \A j \in 1..(i - 1) : FracGt(sims[i], sims[j])
                         /\ \A j \in (i + 1)..Len(recentPosts) : ~FracGt(sims[j], sims[i])}
             maxSimilarity == IF kept = {} THEN <<0, 1>> ELSE sims[CHOOSE i \in kept : TRUE]
             mostSimilar == IF kept = {} THEN NULL
                            ELSE recentPosts[CHOOSE i \in kept : TRUE].text
         IN [valid |-> maxSimilarity[1] * 1000 <= threshold * maxSimilarity[2],
             maxSimilarity |-> maxSimilarity,
             mostSimilar |-> mostSimilar]

requiresLogistics_always(sl) == TRUE

\* the slots whose texts must contain a logistics word
requiresLogistics(sl) == sl \notin {"morning", "simple_goodnight", "casual"}

\* validateTweet: the errors array, one entry pushed by each failing check
validateTweetErrors(text, recentPosts, sl) ==
    (IF checkLength(text) THEN <<>> ELSE <<"length">>)
    \o (IF checkEmoji(text) THEN <<>> ELSE <<"emoji">>)
    \o (IF checkForbiddenWords(text) THEN <<>> ELSE <<"forbidden">>)
    \o (IF requiresLogistics(sl) /\ ~checkLogisticsWord(text) THEN <<"logistics">> ELSE <<>>)
    \o (IF checkSimilarity(text, recentPosts, 600).valid THEN <<>> ELSE <<"similarity">>)

\* validateTweet: valid is errors.length === 0
validateTweet(text, recentPosts, sl) == Len(validateTweetErrors(text, recentPosts, sl)) = 0

(***************************************************************************)
(* core/fallback.ts                                                        *)
(***************************************************************************)
slotKeywords(sl) ==
    IF sl = "delivery" THEN {<<"h", "t">>, <<"n", "m">>, <<"f", "z">>, <<"k", "s">>}
    ELSE IF sl = "commute" THEN {<<"k", "e">>, <<"o", "w">>, <<"h", "k">>}
    ELSE IF sl = "night_ero" THEN {<<"y", "o">>, <<"s", "b">>, <<"i", "y">>}
    ELSE IF sl = "goodnight" THEN {<<"o", "y">>, <<"n", "e">>, <<"a", "s">>}
    ELSE {}

Range(seq) == {seq[i] : i \in 1..Len(seq)}

getFallbackTweetForSlot_strict(sl, recentPosts, tweets) ==
    IF Len(tweets) = 0 THEN {}
    ELSE LET keywords   == slotKeywords(sl)
             filtered   == {tw \in Range(tweets) : \E kw \in keywords : Includes(tw, kw)}
             candidates == IF keywords # {} /\ filtered # {} THEN filtered ELSE Range(tweets)
             passing    == {c \in candidates : checkSimilarity(c, recentPosts, 500).valid}
         IN passing

getFallbackTweetForSlot_anyCandidate(sl, recentPosts, tweets) ==
    IF Len(tweets) = 0 THEN {}
    ELSE LET keywords   == slotKeywords(sl)
             filtered   == {tw \in Range(tweets) : \E kw \in keywords : Includes(tw, kw)}
             candidates == IF keywords # {} /\ filtered # {} THEN filtered ELSE Range(tweets)
         IN candidates

\* getFallbackTweetForSlot: the texts it can return, {} when it returns null.
\* The shuffle can put any candidate first.
getFallbackTweetForSlot(sl, recentPosts, tweets) ==
    IF Len(tweets) = 0 THEN {}
    ELSE LET keywords   == slotKeywords(sl)
             filtered   == {tw \in Range(tweets) : \E kw \in keywords : Includes(tw, kw)}
             candidates == IF keywords # {} /\ filtered # {} THEN filtered ELSE Range(tweets)
             passing    == {c \in candidates : checkSimilarity(c, recentPosts, 500).valid}
         IN IF passing # {} THEN passing ELSE candidates

(***************************************************************************)
(* core/prompt.ts                                                          *)
(***************************************************************************)
\* config/slots.yaml in declaration order
slotsConfig ==
    << [name |-> "delivery",  hours |-> {9, 10, 11, 14, 15, 16, 17}, weight |-> 1],
       [name |-> "commute",   hours |-> {7, 8, 18, 19, 20},          weight |-> 1],
       [name |-> "night_ero", hours |-> {21, 22},                    weight |-> 1],
       [name |-> "goodnight", hours |-> {23, 0},                     weight |-> 1] >>

slotCandidatesOf_keepsMorning(config, hour, s) ==
    SelectSeq(config,
              LAMBDA c : /\ ~(c.name = "goodnight" /\ s.today_goodnight_posted)
                         /\ ~(c.name = "simple_goodnight" /\ s.today_simple_goodnight_posted)
                         /\ hour \in c.hours)

\* the candidate loop of determineSlot over the slots loadSlots() returned
slotCandidatesOf(config, hour, s) ==
    SelectSeq(config,
              LAMBDA c : /\ ~(c.name = "goodnight" /\ s.today_goodnight_posted)
                         /\ ~(c.name = "simple_goodnight" /\ s.today_simple_goodnight_posted)
                         /\ ~(c.name = "morning" /\ s.today_morning_posted)
                         /\ hour \in c.hours)

slotCandidates(hour, s) == slotCandidatesOf(slotsConfig, hour, s)

RECURSIVE sumWeights(_, _)
sumWeights(cands, i) == IF i > Len(cands) THEN 0 ELSE cands[i].weight + sumWeights(cands, i + 1)

\* the weighted pick: random is Math.random() * totalWeight, times 1000
RECURSIVE weightedPick(_, _, _)
weightedPick(cands, i, random) ==
    IF i > Len(cands) THEN cands[1].name
    ELSE IF random - 1000 * cands[i].weight <= 0 THEN cands[i].name
    ELSE weightedPick(cands, i + 1, random - 1000 * cands[i].weight)

determineSlotWith_noFullNight(config, hour, s, r1, r2) ==
    IF ~s.today_morning_posted /\ hour \in {6, 7} THEN "morning"
    ELSE IF /\ ~s.today_simple_goodnight_posted /\ ~s.today_goodnight_posted
            /\ hour \in {23, 0} /\ r1 < 500
    THEN "simple_goodnight"
    ELSE LET cands == slotCandidatesOf(config, hour, s)
         IN IF Len(cands) = 0 THEN "delivery"
            ELSE weightedPick(cands, 1, r2 * sumWeights(cands, 1))

\* determineSlot over the slots loadSlots() returned; r1 is the draw of the night
\* choice, r2 the draw of the weighted pick
determineSlotWith(config, hour, s, r1, r2) ==
    IF ~s.today_morning_posted /\ hour \in {6, 7} THEN "morning"
    ELSE IF /\ ~s.today_simple_goodnight_posted /\ ~s.today_goodnight_posted
            /\ hour \in {23, 0} /\ r1 < 500
    THEN "simple_goodnight"
    ELSE IF /\ ~s.today_goodnight_posted /\ ~s.today_simple_goodnight_posted
            /\ hour \in {23, 0}
    THEN "goodnight"
    ELSE LET cands == slotCandidatesOf(config, hour, s)
         IN IF Len(cands) = 0 THEN "delivery"
            ELSE weightedPick(cands, 1, r2 * sumWeights(cands, 1))

\* determineSlot with the slots of config/slots.yaml
determineSlot(hour, s, r1, r2) == determineSlotWith(slotsConfig, hour, s, r1, r2)

(***************************************************************************)
(* agent/run.ts                                                            *)
(***************************************************************************)
MAX_GENERATION_RETRIES == 2

calculateSkipProbabilityAt_le60(s, m) ==
    LET minutes == minutesSinceLastPostAt(s, m)
    IN IF minutes = -1 THEN 50
       ELSE IF minutes <= 60 THEN 30
       ELSE IF minutes < 120 THEN 80
       ELSE IF s.today_skip_count < 2 THEN 200
       ELSE 50

\* calculateSkipProbability, permille, when Date.now() is m minutes after the epoch
calculateSkipProbabilityAt(s, m) ==
    LET minutes == minutesSinceLastPostAt(s, m)
    IN IF minutes = -1 THEN 50
       ELSE IF minutes < 60 THEN 30
       ELSE IF minutes < 120 THEN 80
       ELSE IF s.today_skip_count < 2 THEN 200
       ELSE 50

\* calculateSkipProbability on the hour
calculateSkipProbability(s, t) == calculateSkipProbabilityAt(s, t * 60)

skipExemptSlots_noGoodnight == {"simple_goodnight", "morning"}

skipExemptSlots == {"goodnight", "simple_goodnight", "morning"}

noImageSlots_onlyMorning == {"morning"}

noImageSlots == {"morning", "simple_goodnight"}

QuotaReached_gt(s) == s.today_post_count > s.today_max_posts

\* main, line 104: the daily quota check
QuotaReached(s) == s.today_post_count >= s.today_max_posts

LoopContinues_lt(a) == a < MAX_GENERATION_RETRIES

\* main, line 167: the condition of the generation loop
LoopContinues(a) == a <= MAX_GENERATION_RETRIES

\* what a run has done so far; at is the time of its loadState()
NoObs == [at |-> 0, gen |-> 0, errors |-> 0, invalid |-> 0, valid |-> 0,
          fallback |-> 0, pool |-> 0, upload |-> 0, create |-> 0, saves |-> 0,
          dry |-> FALSE, failed |-> FALSE, published |-> FALSE,
          skipped |-> FALSE, mood |-> NULL]

Written(s) == [kind |-> "ok", state |-> s]

Absent == [kind |-> "absent", state |-> DEFAULT_STATE]

\* noon of the second day of the epoch
StartTime == HoursPerDay + 12

\* the second process before it starts; the load* and save* fields record where
\* the first process was when the second one loaded and saved
NoOther ==
    [pc |-> "idle", state |-> DEFAULT_STATE, loaded |-> DEFAULT_STATE, published |-> FALSE,
     loadRuns |-> -1, loadPc |-> "none", loadSaves |-> -1, saveRuns |-> -1, savePc |-> "none"]

InitRun ==
    /\ other = NoOther
    /\ pc = "idle"
    /\ state = DEFAULT_STATE
    /\ loaded = DEFAULT_STATE
    /\ disk0 = disk
    /\ slot = "none"
    /\ imagePath = FALSE
    /\ tweetText = NULL
    /\ usedFallback = FALSE
    /\ attempt = 0
    /\ mediaId = FALSE
    /\ exitCode = -1
    /\ obs = NoObs
    /\ runs = 0
    /\ ticks = 0

(***************************************************************************)
(* State files left by earlier runs: a first run and n - 1 further runs at *)
(* time t, each of which found no generator, took the fallback text and    *)
(* posted it without image.                                                *)
(***************************************************************************)
FallbackPostRun(d, t, roll) ==
    LET s0 == loadState(d, t, roll).state
        s1 == incrementFallbackUsed(s0)
        s2 == updateStateAfterPost(s1, TextFb, "delivery", FALSE, t, "tired")
    IN Written(saveState(s2, t))

\* n such runs from the file d, computed by halves
RECURSIVE AfterPosts(_, _, _, _)
AfterPosts(d, n, t, roll) ==
    IF n = 0 THEN d
    ELSE IF n = 1 THEN FallbackPostRun(d, t, roll)
    ELSE LET half == AfterPosts(d, n \div 2, t, roll)
         IN IF half.kind = "ok" THEN AfterPosts(half, n - (n \div 2), t, roll) ELSE half

\* no state file yet, or the file one earlier run of the day has left
Init ==
    /\ now = StartTime
    /\ \E roll \in DailyMaxRolls, n \in {0, 1} :
         disk = AfterPosts(Absent, n, StartTime, roll)
    /\ limit = MaxRuns
    /\ call = NULL
    /\ result = NULL
    /\ InitRun

\* the clock moves on to the next observed hour
NextSample(t) ==
    CHOOSE u \in (t + 1)..(t + HoursPerDay) :
        /\ getJSTHour(u) \in SampleHours
        /\ \A v \in (t + 1)..(u - 1) : getJSTHour(v) \notin SampleHours

\* time passes between two runs and while a run awaits the publish capability
Tick ==
    /\ pc \in {"idle", "create"}
    /\ ticks < MaxTicks
    /\ ticks' = ticks + 1
    /\ now' = NextSample(now)
    /\ UNCHANGED <<disk, pc, state, loaded, disk0, slot, imagePath, tweetText,
                   usedFallback, attempt, mediaId, exitCode, obs, runs, limit, call, result, other>>

\* main, lines 99-107: loadState, then the quota check
Load ==
    /\ pc = "idle"
    /\ runs < limit
    /\ \E roll \in DailyMaxRolls :
         LET res == loadState(disk, now, roll)
         IN /\ state' = res.state
            /\ loaded' = res.state
            /\ disk' = res.disk
            /\ IF QuotaReached(res.state)
               THEN pc' = "done" /\ exitCode' = 0
               ELSE pc' = "decide" /\ exitCode' = -1
    /\ disk0' = disk
    /\ obs' = [NoObs EXCEPT !.at = now]
    /\ UNCHANGED <<now, slot, imagePath, tweetText, usedFallback, attempt, mediaId,
                   runs, ticks, limit, call, result, other>>

\* the outcomes the random draws of a decision leave open
SlotChoices(hour, s) ==
    {determineSlot(hour, s, r1, r2) : r1 \in RandomDraws, r2 \in RandomDraws}

SkipDraws(s, t) == {r < calculateSkipProbability(s, t) : r \in RandomDraws}

ImageDraws(s) == {shouldPostImage(s, r) : r \in RandomDraws}

markSkipped_twice(s) ==
    [s EXCEPT !.today_skipped = TRUE, !.today_skip_count = s.today_skip_count + 2]

\* main, lines 124-125
markSkipped(s) ==
    [s EXCEPT !.today_skipped = TRUE, !.today_skip_count = s.today_skip_count + 1]

\* main, lines 109-129: slot, then the pacing skip
Skip ==
    /\ pc = "decide"
    /\ \E sl \in SlotChoices(getJSTHour(now), state) :
         /\ sl \notin skipExemptSlots
         /\ TRUE \in SkipDraws(state, now)
         /\ slot' = sl
    /\ state' = saveState(markSkipped(state), now)
    /\ disk' = Written(state')
    /\ obs' = [obs EXCEPT !.saves = obs.saves + 1, !.skipped = TRUE]
    /\ pc' = "done"
    /\ exitCode' = 0
    /\ UNCHANGED <<now, loaded, disk0, imagePath, tweetText, usedFallback, attempt,
                   mediaId, runs, ticks, limit, call, result, other>>

\* main, lines 109-165: slot, no skip, the image decision, isOpenAIAvailable()
Proceed ==
    /\ pc = "decide"
    /\ \E sl \in SlotChoices(getJSTHour(now), state), imageFound \in BOOLEAN, openai \in BOOLEAN :
         \E shouldImage \in (IF sl \in noImageSlots THEN {FALSE} ELSE ImageDraws(state)) :
            /\ sl \in skipExemptSlots \/ FALSE \in SkipDraws(state, now)
            /\ slot' = sl
            /\ imagePath' = (shouldImage /\ imageFound)
            /\ pc' = IF openai THEN "generate" ELSE "fallback"
    /\ attempt' = 0
    /\ UNCHANGED <<now, disk, state, loaded, disk0, tweetText, usedFallback, mediaId,
                   exitCode, obs, runs, ticks, limit, call, result, other>>

\* the loop header after an attempt that did not break
AfterAttempt(a) == IF LoopContinues(a + 1) THEN "generate" ELSE "fallback"

GenerateError_countsNg ==
    /\ pc = "generate"
    /\ obs' = [obs EXCEPT !.gen = obs.gen + 1, !.errors = obs.errors + 1]
    /\ state' = incrementNgRetry(state)
    /\ attempt' = attempt + 1
    /\ pc' = AfterAttempt(attempt)
    /\ UNCHANGED <<now, disk, loaded, disk0, slot, imagePath, tweetText,
                   usedFallback, mediaId, exitCode, runs, ticks, limit, call, result, other>>

\* main, lines 167-200: one attempt in which generateTweet throws
GenerateError ==
    /\ pc = "generate"
    /\ obs' = [obs EXCEPT !.gen = obs.gen + 1, !.errors = obs.errors + 1]
    /\ attempt' = attempt + 1
    /\ pc' = AfterAttempt(attempt)
    /\ UNCHANGED <<now, disk, state, loaded, disk0, slot, imagePath, tweetText,
                   usedFallback, mediaId, exitCode, runs, ticks, limit, call, result, other>>

\* main, lines 167-193: one attempt in which generateTweet answers
GenerateText ==
    /\ pc = "generate"
    /\ \E text \in GenTexts, mood \in GenMoods :
         IF validateTweet(text, state.last_posts, slot)
         THEN /\ tweetText' = text
              /\ state' = [state EXCEPT !.mood = mood]
              /\ obs' = [obs EXCEPT !.gen = obs.gen + 1, !.valid = obs.valid + 1,
                                    !.mood = mood]
              /\ pc' = "prepare"
              /\ attempt' = attempt
         ELSE /\ tweetText' = tweetText
              /\ state' = incrementNgRetry(state)
              /\ obs' = [obs EXCEPT !.gen = obs.gen + 1, !.invalid = obs.invalid + 1]
              /\ attempt' = attempt + 1
              /\ pc' = AfterAttempt(attempt)
    /\ UNCHANGED <<now, disk, loaded, disk0, slot, imagePath, usedFallback, mediaId,
                   exitCode, runs, ticks, limit, call, result, other>>

FallbackNone_noSave ==
    /\ pc = "fallback"
    /\ \E pool \in FallbackPools :
         /\ getFallbackTweetForSlot(slot, state.last_posts, pool) = {}
         /\ obs' = [obs EXCEPT !.fallback = obs.fallback + 1, !.pool = Len(pool)]
    /\ usedFallback' = TRUE
    /\ pc' = "done"
    /\ exitCode' = 0
    /\ UNCHANGED <<now, disk, state, loaded, disk0, slot, imagePath, tweetText, attempt,
                   mediaId, runs, ticks, limit, call, result, other>>

\* main, lines 206-218: the fallback selector returns nothing
FallbackNone ==
    /\ pc = "fallback"
    /\ \E pool \in FallbackPools :
         /\ getFallbackTweetForSlot(slot, state.last_posts, pool) = {}
         /\ obs' = [obs EXCEPT !.fallback = obs.fallback + 1, !.pool = Len(pool),
                               !.saves = obs.saves + 1]
    /\ usedFallback' = TRUE
    /\ state' = saveState(state, now)
    /\ disk' = Written(state')
    /\ pc' = "done"
    /\ exitCode' = 0
    /\ UNCHANGED <<now, loaded, disk0, slot, imagePath, tweetText, attempt, mediaId,
                   runs, ticks, limit, call, result, other>>

\* main, lines 206-213: the fallback selector returns a text
FallbackText ==
    /\ pc = "fallback"
    /\ \E pool \in FallbackPools :
         \E text \in getFallbackTweetForSlot(slot, state.last_posts, pool) :
            /\ tweetText' = text
            /\ obs' = [obs EXCEPT !.fallback = obs.fallback + 1, !.pool = Len(pool)]
    /\ usedFallback' = TRUE
    /\ state' = incrementFallbackUsed(state)
    /\ pc' = "prepare"
    /\ UNCHANGED <<now, disk, loaded, disk0, slot, imagePath, attempt, mediaId,
                   exitCode, runs, ticks, limit, call, result, other>>

DryPath_saves ==
    /\ pc = "prepare"
    /\ obs' = [obs EXCEPT !.dry = TRUE]
    /\ state' = saveState(state, now)
    /\ disk' = Written(state')
    /\ pc' = "done"
    /\ exitCode' = 0
    /\ UNCHANGED <<now, loaded, disk0, slot, imagePath, tweetText,
                   usedFallback, attempt, mediaId, runs, ticks, limit, call, result, other>>

\* main, lines 226-231: isXApiAvailable() is false
DryPath ==
    /\ pc = "prepare"
    /\ obs' = [obs EXCEPT !.dry = TRUE]
    /\ pc' = "done"
    /\ exitCode' = 0
    /\ UNCHANGED <<now, disk, state, loaded, disk0, slot, imagePath, tweetText,
                   usedFallback, attempt, mediaId, runs, ticks, limit, call, result, other>>

ToPublish_skipUpload ==
    /\ pc = "prepare"
    /\ pc' = "create"
    /\ UNCHANGED <<now, disk, state, loaded, disk0, slot, imagePath, tweetText,
                   usedFallback, attempt, mediaId, exitCode, obs, runs, ticks, limit,
                   call, result, other>>

\* main, lines 226-237: isXApiAvailable() is true, the try block is entered
ToPublish ==
    /\ pc = "prepare"
    /\ pc' = IF imagePath THEN "upload" ELSE "create"
    /\ UNCHANGED <<now, disk, state, loaded, disk0, slot, imagePath, tweetText,
                   usedFallback, attempt, mediaId, exitCode, obs, runs, ticks, limit, call, result, other>>

\* main, lines 237-241: uploadMediaChunked returns a media id
UploadOk ==
    /\ pc = "upload"
    /\ mediaId' = TRUE
    /\ obs' = [obs EXCEPT !.upload = obs.upload + 1]
    /\ pc' = "create"
    /\ UNCHANGED <<now, disk, state, loaded, disk0, slot, imagePath, tweetText,
                   usedFallback, attempt, exitCode, runs, ticks, limit, call, result, other>>

PublishFailed_noExit ==
    /\ state' = saveState(state, now)
    /\ disk' = Written(state')
    /\ pc' = "done"
    /\ exitCode' = 0

\* main, lines 257-261: the catch block
PublishFailed ==
    /\ state' = saveState(state, now)
    /\ disk' = Written(state')
    /\ pc' = "done"
    /\ exitCode' = 1

\* main, lines 239, 257-261: uploadMediaChunked throws
UploadFail ==
    /\ pc = "upload"
    /\ obs' = [obs EXCEPT !.upload = obs.upload + 1, !.saves = obs.saves + 1,
                          !.failed = TRUE]
    /\ PublishFailed
    /\ UNCHANGED <<now, loaded, disk0, slot, imagePath, tweetText, usedFallback,
                   attempt, mediaId, runs, ticks, limit, call, result, other>>

\* main, lines 243-256: the post is created, then the state update and the save
CreateOk ==
    /\ pc = "create"
    /\ \E lowMood \in LowMoods :
         state' = saveState(updateStateAfterPost(state, tweetText, slot, mediaId, now, lowMood), now)
    /\ disk' = Written(state')
    /\ obs' = [obs EXCEPT !.create = obs.create + 1, !.saves = obs.saves + 1,
                          !.published = TRUE]
    /\ pc' = "done"
    /\ exitCode' = 0
    /\ UNCHANGED <<now, loaded, disk0, slot, imagePath, tweetText, usedFallback,
                   attempt, mediaId, runs, ticks, limit, call, result, other>>

\* main, lines 244-246, 257-261: createTweet / createTweetWithMedia throws
CreateFail ==
    /\ pc = "create"
    /\ obs' = [obs EXCEPT !.create = obs.create + 1, !.saves = obs.saves + 1,
                          !.failed = TRUE]
    /\ PublishFailed
    /\ UNCHANGED <<now, loaded, disk0, slot, imagePath, tweetText, usedFallback,
                   attempt, mediaId, runs, ticks, limit, call, result, other>>

\* the process has ended; the scheduler will start the next one
Finish ==
    /\ pc = "done"
    /\ pc' = "idle"
    /\ runs' = runs + 1
    /\ state' = DEFAULT_STATE
    /\ loaded' = DEFAULT_STATE
    /\ disk0' = disk
    /\ slot' = "none"
    /\ imagePath' = FALSE
    /\ tweetText' = NULL
    /\ usedFallback' = FALSE
    /\ attempt' = 0
    /\ mediaId' = FALSE
    /\ exitCode' = -1
    /\ obs' = NoObs
    /\ UNCHANGED <<now, disk, ticks, limit, call, result, other>>

Next ==
    \/ Tick
    \/ Load
    \/ Skip
    \/ Proceed
    \/ GenerateError
    \/ GenerateText
    \/ FallbackNone
    \/ FallbackText
    \/ DryPath
    \/ ToPublish
    \/ UploadOk
    \/ UploadFail
    \/ CreateOk
    \/ CreateFail
    \/ Finish

Spec == Init /\ [][Next]_vars

\* runs close to the daily quota: the file holds all the posts of the day, or
\* all but one
InitQuota ==
    /\ now = StartTime
    /\ \E roll \in DailyMaxRolls, short \in {0, 1} :
         disk = AfterPosts(Absent, roll - short, StartTime, roll)
    /\ limit = QuotaRuns
    /\ call = NULL
    /\ result = NULL
    /\ InitRun

SpecQuota == InitQuota /\ [][Next]_vars

\* a state file that exists but cannot be read or parsed
Corrupt == [kind |-> "corrupt", state |-> DEFAULT_STATE]

\* runs that find the state file corrupt
InitCorrupt ==
    /\ now = StartTime
    /\ disk = Corrupt
    /\ limit = MaxRuns
    /\ call = NULL
    /\ result = NULL
    /\ InitRun

SpecCorrupt == InitCorrupt /\ [][Next]_vars

(***************************************************************************)
(* Two processes of main() that overlap on the state file. The second one  *)
(* finds no generator, takes the fallback text and posts it without image; *)
(* its load and its post with the save are steps that interleave with the *)
(* steps of the first. The clock stands still and no further run starts.   *)
(***************************************************************************)
\* main, lines 99-107 in the second process
OtherLoad ==
    /\ other.pc = "idle"
    /\ \E roll \in DailyMaxRolls :
         LET res == loadState(disk, now, roll)
         IN /\ disk' = res.disk
            /\ other' = [other EXCEPT !.pc = IF QuotaReached(res.state) THEN "done" ELSE "loaded",
                                      !.state = res.state,
                                      !.loaded = res.state,
                                      !.loadRuns = runs,
                                      !.loadPc = pc,
                                      !.loadSaves = obs.saves]
    /\ UNCHANGED <<now, pc, state, loaded, disk0, slot, imagePath, tweetText, usedFallback,
                   attempt, mediaId, exitCode, obs, runs, ticks, limit, call, result>>

OtherPost_reloads ==
    /\ other.pc = "loaded"
    /\ LET s0 == loadState(disk, now, other.state.today_max_posts).state
           s1 == incrementFallbackUsed(s0)
           s2 == updateStateAfterPost(s1, TextFb, "delivery", FALSE, now, "tired")
           s3 == saveState(s2, now)
       IN /\ disk' = Written(s3)
          /\ other' = [other EXCEPT !.pc = "done", !.state = s3, !.published = TRUE,
                                    !.saveRuns = runs, !.savePc = pc]
    /\ UNCHANGED <<now, pc, state, loaded, disk0, slot, imagePath, tweetText, usedFallback,
                   attempt, mediaId, exitCode, obs, runs, ticks, limit, call, result>>

\* main, lines 207-256 in the second process: the fallback text, create post,
\* updateStateAfterPost on the state it loaded, saveState
OtherPost ==
    /\ other.pc = "loaded"
    /\ LET s1 == incrementFallbackUsed(other.state)
           s2 == updateStateAfterPost(s1, TextFb, "delivery", FALSE, now, "tired")
           s3 == saveState(s2, now)
       IN /\ disk' = Written(s3)
          /\ other' = [other EXCEPT !.pc = "done", !.state = s3, !.published = TRUE,
                                    !.saveRuns = runs, !.savePc = pc]
    /\ UNCHANGED <<now, pc, state, loaded, disk0, slot, imagePath, tweetText, usedFallback,
                   attempt, mediaId, exitCode, obs, runs, ticks, limit, call, result>>

NextRace ==
    \/ Load
    \/ Skip
    \/ Proceed
    \/ GenerateError
    \/ GenerateText
    \/ FallbackNone
    \/ FallbackText
    \/ DryPath
    \/ ToPublish
    \/ UploadOk
    \/ UploadFail
    \/ CreateOk
    \/ CreateFail
    \/ OtherLoad
    \/ OtherPost

SpecRace == Init /\ [][NextRace]_vars

(***************************************************************************)
(* Calls of the functions of core/validate.ts on their own: a text, a      *)
(* history of recent posts and a slot are the arguments, and each action   *)
(* is one call that leaves what it returned in result.                     *)
(***************************************************************************)
MaxHistory == 1

\* a text of n code points that starts with a logistics word
Padded(n) == [i \in 1..n |-> IF i = 1 THEN "h" ELSE IF i = 2 THEN "t" ELSE "a"]

TextEmpty == <<>>
TextOne == <<"h">>
TextSpaced == <<"h", " ", "t">>
TextEmoji2 == <<"h", "t", "@", "o", "@">>
TextEmoji3 == <<"h", "t", "@", "@", "@">>
TextMax == Padded(140)
TextLong == Padded(141)

ValidateTexts ==
    {TextOk, TextPlain, TextNg, TextFb, TextEmpty, TextOne, TextSpaced, TextEmoji2,
     TextEmoji3, TextMax, TextLong}

ValidateSlots == {"morning", "simple_goodnight", "delivery", "goodnight"}

\* the PostRecord of a text
PostOf(text) ==
    [text |-> text, slot |-> "delivery", timestamp |-> getJSTTimestamp(StartTime),
     hasImage |-> FALSE]

Histories ==
    UNION {{[i \in 1..n |-> PostOf(f[i])] : f \in [1..n -> ValidateTexts]} : n \in 0..MaxHistory}

InitValidate ==
    /\ now = StartTime
    /\ disk = Absent
    /\ limit = 0
    /\ call \in [text : ValidateTexts, recentPosts : Histories, slot : ValidateSlots]
    /\ result = NULL
    /\ InitRun

\* validateTweet(text, recentPosts, slot)
CallValidateTweet ==
    /\ call # NULL
    /\ result = NULL
    /\ result' = [fn |-> "validateTweet",
                  valid |-> validateTweet(call.text, call.recentPosts, call.slot),
                  errors |-> validateTweetErrors(call.text, call.recentPosts, call.slot)]
    /\ UNCHANGED <<now, disk, pc, state, loaded, disk0, slot, imagePath, tweetText,
                   usedFallback, attempt, mediaId, exitCode, obs, runs, ticks, limit, call, other>>

\* checkSimilarity(text, recentPosts) with the default threshold 0.6
CallCheckSimilarity ==
    /\ call # NULL
    /\ result = NULL
    /\ result' = [fn |-> "checkSimilarity",
                  ret |-> checkSimilarity(call.text, call.recentPosts, 600)]
    /\ UNCHANGED <<now, disk, pc, state, loaded, disk0, slot, imagePath, tweetText,
                   usedFallback, attempt, mediaId, exitCode, obs, runs, ticks, limit, call, other>>

\* jaccardSimilarity(getBigrams(text), getBigrams(text2)), as checkSimilarity
\* computes it for a post with the text text2
CallJaccardSimilarity ==
    /\ call # NULL
    /\ result = NULL
    /\ \E text2 \in ValidateTexts :
         result' = [fn |-> "jaccardSimilarity", other |-> text2,
                    ret |-> jaccardSimilarity(getBigrams(call.text), getBigrams(text2))]
    /\ UNCHANGED <<now, disk, pc, state, loaded, disk0, slot, imagePath, tweetText,
                   usedFallback, attempt, mediaId, exitCode, obs, runs, ticks, limit, call, other>>

NextValidate ==
    \/ CallValidateTweet
    \/ CallCheckSimilarity
    \/ CallJaccardSimilarity

SpecValidate == InitValidate /\ [][NextValidate]_vars

(***************************************************************************)
(* Calls of getFallbackTweetForSlot on their own: the slot, the history    *)
(* and the lines of config/fallback_tweets.txt are the arguments.          *)
(***************************************************************************)
MaxPool == 2

\* lines of the pool: with a delivery keyword, with a delivery and a commute
\* keyword, with a goodnight keyword, with no keyword and no bigram
PoolTexts == {TextFb, TextOk, TextPlain, TextOne}

PoolFiles == UNION {[1..n -> PoolTexts] : n \in 0..MaxPool}

PoolHistories ==
    UNION {{[i \in 1..n |-> PostOf(f[i])] : f \in [1..n -> PoolTexts]} : n \in 0..MaxHistory}

PoolSlots == {"delivery", "commute", "night_ero", "goodnight", "morning", "simple_goodnight"}

InitFallback ==
    /\ now = StartTime
    /\ disk = Absent
    /\ limit = 0
    /\ call \in [slot : PoolSlots, recentPosts : PoolHistories, tweets : PoolFiles]
    /\ result = NULL
    /\ InitRun

\* getFallbackTweetForSlot(slot, recentPosts)
CallGetFallbackTweetForSlot ==
    /\ call # NULL
    /\ result = NULL
    /\ LET out == getFallbackTweetForSlot(call.slot, call.recentPosts, call.tweets)
       IN IF out = {}
          THEN result' = [fn |-> "getFallbackTweetForSlot", isNull |-> TRUE, ret |-> NULL]
          ELSE \E text \in out :
                  result' = [fn |-> "getFallbackTweetForSlot", isNull |-> FALSE, ret |-> text]
    /\ UNCHANGED <<now, disk, pc, state, loaded, disk0, slot, imagePath, tweetText,
                   usedFallback, attempt, mediaId, exitCode, obs, runs, ticks, limit, call, other>>

NextFallback == CallGetFallbackTweetForSlot

SpecFallback == InitFallback /\ [][NextFallback]_vars

(***************************************************************************)
(* core/x.ts: one call of createTweet, createTweetWithMedia or             *)
(* uploadMediaChunked. call holds the function, the environment and the    *)
(* number of 5 MB chunks of the file; result is the progress of the call:  *)
(* the requests it has sent and how it ended.                              *)
(***************************************************************************)
MaxChunks == 1

\* pollMediaStatus: the default of maxAttempts
maxAttempts == 10

XFunctions == {"createTweet", "createTweetWithMedia", "uploadMediaChunked"}

\* values of the environment variable X_DRY_RUN; "" is unset
XDryRunValues == {"true", "1", ""}

\* const DRY_RUN = process.env.X_DRY_RUN === 'true'
DRY_RUN(env) == env = "true"

dryRunId_noMedia(fn) == "dry_run_"

\* the identifier a dry run returns, without its Date.now() suffix
dryRunId(fn) == IF fn = "uploadMediaChunked" THEN "dry_run_media_" ELSE "dry_run_"

\* check_after_secs of a STATUS reply (0 is absent) and the wait it leads to
CheckAfterSecs == {0, 1}
waitSeconds(secs) == IF secs = 0 THEN 5 ELSE secs

PollContinues_le(n) == n <= maxAttempts

\* pollMediaStatus: the loop test attempt < maxAttempts
PollContinues(n) == n < maxAttempts

XEntered(fn) ==
    [fn |-> fn, stage |-> "entry", outcome |-> "running", requests |-> 0,
     appended |-> 0, statusRequests |-> 0, waited |-> 0, last |-> "none",
     ret |-> "none", error |-> "none"]

InitX ==
    /\ now = StartTime
    /\ disk = Absent
    /\ limit = 0
    /\ call \in [fn : XFunctions, X_DRY_RUN : XDryRunValues, token : BOOLEAN,
                 chunks : 0..MaxChunks]
    /\ result = XEntered(call.fn)
    /\ InitRun

XUnchanged ==
    UNCHANGED <<now, disk, pc, state, loaded, disk0, slot, imagePath, tweetText,
                usedFallback, attempt, mediaId, exitCode, obs, runs, ticks, limit, call, other>>

XReturn(r, id) == [r EXCEPT !.outcome = "returned", !.stage = "end", !.ret = id]
XThrow(r, err) == [r EXCEPT !.outcome = "thrown", !.stage = "end", !.error = err]
XSent(r) == [r EXCEPT !.requests = r.requests + 1]

\* the DRY_RUN branch of the three functions
XDryRun ==
    /\ result.stage = "entry"
    /\ DRY_RUN(call.X_DRY_RUN)
    /\ result' = XReturn(result, dryRunId(call.fn))
    /\ XUnchanged

\* createTweet / createTweetWithMedia: the POST /tweets request
XCreateTweet ==
    /\ result.stage = "entry"
    /\ ~DRY_RUN(call.X_DRY_RUN)
    /\ call.fn \in {"createTweet", "createTweetWithMedia"}
    /\ IF ~call.token
       THEN result' = XThrow(result, "no token")
       ELSE \E ok \in BOOLEAN :
               result' = IF ok THEN XReturn(XSent(result), "data.id")
                         ELSE XThrow(XSent(result), "http")
    /\ XUnchanged

\* uploadMediaChunked: INIT
XUploadInit ==
    /\ result.stage = "entry"
    /\ ~DRY_RUN(call.X_DRY_RUN)
    /\ call.fn = "uploadMediaChunked"
    /\ IF ~call.token
       THEN result' = XThrow(result, "no token")
       ELSE \E ok \in BOOLEAN :
               result' = IF ok THEN [XSent(result) EXCEPT !.stage = "append"]
                         ELSE XThrow(XSent(result), "http")
    /\ XUnchanged

\* uploadMediaChunked: one APPEND of the chunk loop
XUploadAppend ==
    /\ result.stage = "append"
    /\ result.appended < call.chunks
    /\ \E ok \in BOOLEAN :
         result' = IF ok THEN [XSent(result) EXCEPT !.appended = result.appended + 1]
                   ELSE XThrow(XSent(result), "http")
    /\ XUnchanged

\* uploadMediaChunked: FINALIZE, with or without processing_info in the reply
XUploadFinalize ==
    /\ result.stage = "append"
    /\ result.appended = call.chunks
    /\ \E reply \in {"not ok", "no processing_info", "processing_info"} :
         result' = IF reply = "not ok" THEN XThrow(XSent(result), "http")
                   ELSE IF reply = "no processing_info"
                   THEN XReturn(XSent(result), "media_id_string")
                   ELSE [XSent(result) EXCEPT !.stage = "status"]
    /\ XUnchanged

\* pollMediaStatus: one iteration, a STATUS request and its reply
XPollStatus ==
    /\ result.stage = "status"
    /\ PollContinues(result.statusRequests)
    /\ \E reply \in {"not ok", "no processing_info", "succeeded", "failed", "in_progress",
                      "pending"},
          secs \in CheckAfterSecs :
         LET sent == [XSent(result) EXCEPT !.statusRequests = result.statusRequests + 1,
                                           !.last = reply]
         IN result' =
              IF reply = "not ok" THEN XThrow(sent, "http")
              ELSE IF reply \in {"no processing_info", "succeeded"}
              THEN XReturn(sent, "media_id_string")
              ELSE IF reply = "failed" THEN XThrow(sent, "failed")
              ELSE [sent EXCEPT !.waited = sent.waited + waitSeconds(secs)]
    /\ XUnchanged

\* pollMediaStatus: the loop is left, 'Media processing timeout' is thrown
XPollTimeout ==
    /\ result.stage = "status"
    /\ ~PollContinues(result.statusRequests)
    /\ result' = XThrow(result, "timeout")
    /\ XUnchanged

NextX ==
    \/ XDryRun
    \/ XCreateTweet
    \/ XUploadInit
    \/ XUploadAppend
    \/ XUploadFinalize
    \/ XPollStatus
    \/ XPollTimeout

SpecX == InitX /\ [][NextX]_vars

\* every awaited request is answered and every wait ends
SpecXLive == SpecX /\ WF_vars(NextX)

(***************************************************************************)
(* Calls of determineSlot on their own: the slots of config/slots.yaml,    *)
(* the hour, the per-day flags of the state and the two draws are the      *)
(* arguments.                                                              *)
(***************************************************************************)
\* a slots.yaml in which slots share hours, with the once-a-day slots in it
slotsOverlapping ==
    << [name |-> "morning",          hours |-> {6, 7, 8},      weight |-> 1],
       [name |-> "delivery",         hours |-> {8, 9, 22, 23}, weight |-> 1],
       [name |-> "commute",          hours |-> {7, 8, 9},      weight |-> 2],
       [name |-> "goodnight",        hours |-> {22, 23, 0},    weight |-> 1],
       [name |-> "simple_goodnight", hours |-> {22, 23, 0},    weight |-> 1] >>

SlotConfigs == {slotsConfig, slotsOverlapping}

SlotStates ==
    {[DEFAULT_STATE EXCEPT !.today_morning_posted = m, !.today_goodnight_posted = g,
                           !.today_simple_goodnight_posted = sg] :
        m \in BOOLEAN, g \in BOOLEAN, sg \in BOOLEAN}

\* values Math.random() * 1000 takes, on both sides of the night choice
SlotDraws == {0, 499, 500, 999}

InitSlot ==
    /\ now = StartTime
    /\ disk = Absent
    /\ limit = 0
    /\ call \in [config : SlotConfigs, hour : 0..(HoursPerDay - 1), state : SlotStates,
                 r1 : SlotDraws, r2 : SlotDraws]
    /\ result = NULL
    /\ InitRun

\* determineSlot(hour, state)
CallDetermineSlot ==
    /\ call # NULL
    /\ result = NULL
    /\ result' = [fn |-> "determineSlot",
                  ret |-> determineSlotWith(call.config, call.hour, call.state,
                                            call.r1, call.r2)]
    /\ UNCHANGED <<now, disk, pc, state, loaded, disk0, slot, imagePath, tweetText,
                   usedFallback, attempt, mediaId, exitCode, obs, runs, ticks, limit, call, other>>

NextSlot == CallDetermineSlot

SpecSlot == InitSlot /\ [][NextSlot]_vars

(***************************************************************************)
(* Calls of calculateSkipProbability and shouldPostImage on their own: the *)
(* state, the minutes Date.now() is past the hour and the draw are the     *)
(* arguments.                                                              *)
(***************************************************************************)
\* the hours before now at which the last post was made; 0 is no post yet
LastPostTimes == {0} \cup {StartTime - h : h \in 0..3}

\* minutes past the hour
LateMinutes == {0, 1, 59}

SkipCounts == 0..3

\* month_total_posts and month_image_posts
MonthCounts ==
    {c \in {0, 9, 10, 12, 13, 50} \X {0, 1, 2, 4, 5, 9} : c[2] <= c[1]}

PacingStates ==
    {[DEFAULT_STATE EXCEPT !.last_post_timestamp_ms = l, !.today_skip_count = k,
                           !.month_total_posts = c[1], !.month_image_posts = c[2]] :
        l \in LastPostTimes, k \in SkipCounts, c \in MonthCounts}

\* values Math.random() * 1000 takes, on both sides of every tier
ImageDrawValues == {0, 19, 20, 99, 100, 299, 300, 999}

InitPacing ==
    /\ now = StartTime
    /\ disk = Absent
    /\ limit = 0
    /\ call \in [state : PacingStates, late : LateMinutes, r : ImageDrawValues]
    /\ result = NULL
    /\ InitRun

\* calculateSkipProbability(state)
CallCalculateSkipProbability ==
    /\ call # NULL
    /\ result = NULL
    /\ result' = [fn |-> "calculateSkipProbability",
                  ret |-> calculateSkipProbabilityAt(call.state, now * 60 + call.late)]
    /\ UNCHANGED <<now, disk, pc, state, loaded, disk0, slot, imagePath, tweetText,
                   usedFallback, attempt, mediaId, exitCode, obs, runs, ticks, limit, call, other>>

\* shouldPostImage(state)
CallShouldPostImage ==
    /\ call # NULL
    /\ result = NULL
    /\ result' = [fn |-> "shouldPostImage", ret |-> shouldPostImage(call.state, call.r)]
    /\ UNCHANGED <<now, disk, pc, state, loaded, disk0, slot, imagePath, tweetText,
                   usedFallback, attempt, mediaId, exitCode, obs, runs, ticks, limit, call, other>>

NextPacing ==
    \/ CallCalculateSkipProbability
    \/ CallShouldPostImage

SpecPacing == InitPacing /\ [][NextPacing]_vars

(***************************************************************************)
(* A run with the requests of generateTweet (core/openai.ts) as steps of   *)
(* their own. result holds the call of generateTweet made by the attempt   *)
(* `of` of main's generation loop: the requests that failed in this call,  *)
(* and the requests sent and answered in the whole run.                    *)
(***************************************************************************)
\* generateTweet, line 59: the default of options.maxRetries
maxRetries == 2

NoGenerateCall ==
    [fn |-> "generateTweet", of |-> -1, tries |-> 0, requests |-> 0, answers |-> 0,
     outcome |-> "none"]

\* the call of generateTweet the current attempt of main makes
CurrentCall ==
    IF result.of = attempt THEN result
    ELSE [result EXCEPT !.of = attempt, !.tries = 0, !.outcome = "running"]

RetryContinues_lt(n) == n < maxRetries

\* generateTweet, line 65: the condition of the request loop
RetryContinues(n) == n <= maxRetries

GenerateUnchanged ==
    UNCHANGED <<now, disk, pc, state, loaded, disk0, slot, imagePath, tweetText,
                usedFallback, attempt, mediaId, exitCode, obs, runs, ticks, limit, call, other>>

InitGenerate ==
    /\ now = StartTime
    /\ \E roll \in DailyMaxRolls, n \in {0, 1} :
         disk = AfterPosts(Absent, n, StartTime, roll)
    /\ limit = MaxRuns
    /\ call = NULL
    /\ result = NoGenerateCall
    /\ InitRun

\* generateTweet, lines 65-114: a request that throws, answers nothing or answers
\* no tweet; the loop goes on or is over
RequestFails ==
    /\ pc = "generate"
    /\ CurrentCall.outcome = "running"
    /\ result' = [CurrentCall EXCEPT
                    !.requests = CurrentCall.requests + 1,
                    !.tries = CurrentCall.tries + 1,
                    !.outcome = IF RetryContinues(CurrentCall.tries + 1)
                                THEN "running" ELSE "thrown"]
    /\ GenerateUnchanged

\* generateTweet, lines 65-105: a request that answers a tweet
RequestAnswers ==
    /\ pc = "generate"
    /\ CurrentCall.outcome = "running"
    /\ result' = [CurrentCall EXCEPT
                    !.requests = CurrentCall.requests + 1,
                    !.answers = CurrentCall.answers + 1,
                    !.outcome = "returned"]
    /\ GenerateUnchanged

\* generateTweet, line 117, caught by main, lines 194-199
GenerateThrows ==
    /\ result.of = attempt
    /\ result.outcome = "thrown"
    /\ GenerateError

\* generateTweet, line 105, continued by main, lines 178-193
GenerateReturns ==
    /\ result.of = attempt
    /\ result.outcome = "returned"
    /\ GenerateText

NextGenerate ==
    \/ Load
    \/ Skip
    \/ Proceed
    \/ RequestFails
    \/ RequestAnswers
    \/ GenerateThrows
    \/ GenerateReturns
    \/ FallbackNone
    \/ FallbackText
    \/ DryPath
    \/ ToPublish
    \/ UploadOk
    \/ UploadFail
    \/ CreateOk
    \/ CreateFail

SpecGenerate == InitGenerate /\ [][NextGenerate]_vars

(***************************************************************************)
(* A run with its environment: call holds X_DRY_RUN and whether            *)
(* X_USER_ACCESS_TOKEN is set, result the requests core/x.ts has sent to   *)
(* the platform and how the platform answered the last one.                *)
(***************************************************************************)
NoRequest == [fn |-> "x", stage |-> "none", ok |-> FALSE, requests |-> 0]

InitDryRun ==
    /\ now = StartTime
    /\ \E roll \in DailyMaxRolls, n \in {0, 1} :
         disk = AfterPosts(Absent, n, StartTime, roll)
    /\ limit = MaxRuns
    /\ call \in [X_DRY_RUN : XDryRunValues, token : BOOLEAN]
    /\ result = NoRequest
    /\ InitRun

\* main, lines 226-231, with isXApiAvailable, x.ts line 369
NoToken == ~call.token /\ DryPath

TokenSet == call.token /\ ToPublish

\* uploadMediaChunked and createTweet / createTweetWithMedia past their DRY_RUN
\* branch: the requests are sent and the platform accepts or rejects
PlatformRequest ==
    /\ pc \in {"upload", "create"}
    /\ ~DRY_RUN(call.X_DRY_RUN)
    /\ result.stage # pc
    /\ \E ok \in BOOLEAN :
         result' = [result EXCEPT !.stage = pc, !.ok = ok, !.requests = result.requests + 1]
    /\ UNCHANGED <<now, disk, pc, state, loaded, disk0, slot, imagePath, tweetText,
                   usedFallback, attempt, mediaId, exitCode, obs, runs, ticks, limit, call, other>>

\* uploadMediaChunked returns: the dry-run id, or the id the platform gave
UploadReturns ==
    /\ DRY_RUN(call.X_DRY_RUN) \/ (result.stage = "upload" /\ result.ok)
    /\ UploadOk

UploadThrows ==
    /\ ~DRY_RUN(call.X_DRY_RUN)
    /\ result.stage = "upload"
    /\ ~result.ok
    /\ UploadFail

CreateReturns_dryNoCommit ==
    IF DRY_RUN(call.X_DRY_RUN)
    THEN /\ pc = "create"
         /\ pc' = "done"
         /\ exitCode' = 0
         /\ obs' = [obs EXCEPT !.create = obs.create + 1]
         /\ UNCHANGED <<now, disk, state, loaded, disk0, slot, imagePath, tweetText,
                        usedFallback, attempt, mediaId, runs, ticks, limit, call, result,
                        other>>
    ELSE /\ result.stage = "create"
         /\ result.ok
         /\ CreateOk

\* createTweet / createTweetWithMedia returns: the dry-run response, or the
\* platform's; main, lines 248-254, goes on the same way
CreateReturns ==
    /\ DRY_RUN(call.X_DRY_RUN) \/ (result.stage = "create" /\ result.ok)
    /\ CreateOk

CreateThrows ==
    /\ ~DRY_RUN(call.X_DRY_RUN)
    /\ result.stage = "create"
    /\ ~result.ok
    /\ CreateFail

NextDryRun ==
    \/ Load
    \/ Skip
    \/ Proceed
    \/ GenerateError
    \/ GenerateText
    \/ FallbackNone
    \/ FallbackText
    \/ NoToken
    \/ TokenSet
    \/ PlatformRequest
    \/ UploadReturns
    \/ UploadThrows
    \/ CreateReturns
    \/ CreateThrows

SpecDryRun == InitDryRun /\ [][NextDryRun]_vars

(***************************************************************************)
(* core/hashtags.ts, called on its own and by a run. call holds a text,    *)
(* the lines of config/hashtags.txt and the draw of getRandomHashtags;     *)
(* result holds the last call of appendHashtags: by whom, on which text,   *)
(* with which tags, and what it returned.                                  *)
(***************************************************************************)
\* '#' and the three code points of the mandatory tag
REQUIRED_HASHTAG == <<"#", "K", "K", "M">>

\* config/hashtags.txt: missing or empty, with the mandatory tag and a short
\* tag, with a long tag
HashtagFiles ==
    {<<>>, <<<<"K", "K", "M">>, <<"a">>>>, <<<<"a", "b", "c", "d", "e", "f">>>>}

\* texts on both sides of every length at which a tag stops fitting
HashtagTexts == {Padded(n) : n \in {4, 127, 128, 132, 133, 135, 136, 140}}

\* getRandomHashtags: the lists it can return; the shuffle can put any other tag first
getRandomHashtags(lines, r) ==
    LET others == {tag \in Range(lines) : tag # <<"K", "K", "M">>}
    IN IF others # {} /\ r < 500
       THEN {<<REQUIRED_HASHTAG, <<"#">> \o tag>> : tag \in others}
       ELSE {<<REQUIRED_HASHTAG>>}

\* hashtags.join(' ')
RECURSIVE JoinTags(_)
JoinTags(tags) ==
    IF Len(tags) = 0 THEN <<>>
    ELSE IF Len(tags) = 1 THEN tags[1]
    ELSE tags[1] \o <<" ">> \o JoinTags(Tail(tags))

appendHashtags_singleUnchecked(tweet, maxLength, hashtags) ==
    IF Len(hashtags) = 0 THEN tweet
    ELSE LET combined   == tweet \o <<"\n">> \o JoinTags(hashtags)
             withSingle == tweet \o <<"\n">> \o hashtags[1]
         IN IF Len(combined) <= maxLength THEN combined
            ELSE withSingle

\* appendHashtags with the tags getRandomHashtags returned; lengths are in code points
appendHashtags(tweet, maxLength, hashtags) ==
    IF Len(hashtags) = 0 THEN tweet
    ELSE LET combined   == tweet \o <<"\n">> \o JoinTags(hashtags)
             withSingle == tweet \o <<"\n">> \o hashtags[1]
         IN IF Len(combined) <= maxLength THEN combined
            ELSE IF Len(withSingle) <= maxLength THEN withSingle
            ELSE tweet

NoHashtagCall ==
    [fn |-> "appendHashtags", by |-> "none", tweet |-> NULL, hashtags |-> <<>>,
     ret |-> NULL]

InitHashtags ==
    /\ now = StartTime
    /\ \E roll \in DailyMaxRolls, n \in {0, 1} :
         disk = AfterPosts(Absent, n, StartTime, roll)
    /\ limit = MaxRuns
    /\ call \in [tweet : HashtagTexts, lines : HashtagFiles, r : RandomDraws]
    /\ result = NoHashtagCall
    /\ InitRun

\* appendHashtags(tweet) on its own
CallAppendHashtags ==
    /\ pc = "idle"
    /\ result.by = "none"
    /\ \E hashtags \in getRandomHashtags(call.lines, call.r) :
         result' = [fn |-> "appendHashtags", by |-> "call", tweet |-> call.tweet,
                    hashtags |-> hashtags,
                    ret |-> appendHashtags(call.tweet, 140, hashtags)]
    /\ UNCHANGED <<now, disk, pc, state, loaded, disk0, slot, imagePath, tweetText,
                   usedFallback, attempt, mediaId, exitCode, obs, runs, ticks, limit, call, other>>

\* main, line 222: tweetWithHashtags
RunAppendHashtags ==
    /\ pc = "prepare"
    /\ result.by # "run"
    /\ \E hashtags \in getRandomHashtags(call.lines, call.r) :
         result' = [fn |-> "appendHashtags", by |-> "run", tweet |-> tweetText,
                    hashtags |-> hashtags,
                    ret |-> appendHashtags(tweetText, 140, hashtags)]
    /\ UNCHANGED <<now, disk, pc, state, loaded, disk0, slot, imagePath, tweetText,
                   usedFallback, attempt, mediaId, exitCode, obs, runs, ticks, limit, call, other>>

\* main, lines 226-231, after line 222
TaggedNoToken == result.by = "run" /\ DryPath

\* main, lines 226-237, after line 222
TaggedToPublish == result.by = "run" /\ ToPublish

NextHashtags ==
    \/ CallAppendHashtags
    \/ Load
    \/ Skip
    \/ Proceed
    \/ GenerateError
    \/ GenerateText
    \/ FallbackNone
    \/ FallbackText
    \/ RunAppendHashtags
    \/ TaggedNoToken
    \/ TaggedToPublish
    \/ UploadOk
    \/ UploadFail
    \/ CreateOk
    \/ CreateFail

SpecHashtags == InitHashtags /\ [][NextHashtags]_vars

(***************************************************************************)
(* Properties                                                              *)
(***************************************************************************)
\* the state file as this run's loadState() left it
DiskAfterLoad == IF disk0.kind = "absent" THEN Written(loaded) ELSE disk0

\* the fields a successful post changes
PostSuccessFields(s) ==
    <<s.today_post_count, s.month_total_posts, s.month_image_posts, s.today_slots_used,
      s.last_post_date>>

PostFields(s) ==
    <<s.today_post_count, s.last_posts, s.today_slots_used, s.month_total_posts,
      s.month_image_posts, s.energy, s.today_morning_posted, s.today_goodnight_posted,
      s.today_simple_goodnight_posted, s.today_narrative, s.last_post_date,
      s.last_post_time, s.last_post_timestamp_ms>>

PerDayFields(s) ==
    <<s.today_post_count, s.today_slots_used, s.today_morning_posted,
      s.today_goodnight_posted, s.today_simple_goodnight_posted, s.today_skipped,
      s.today_skip_count, s.today_max_posts, s.today_narrative>>

\* C1: a run that loads a persisted state with today_post_count >= today_max_posts
\* ends at once with exit code 0: no generator call, no fallback, no media upload,
\* no create post, no write of the state file, which stays as it was found.
C1_QuotaEnforcement ==
    (pc # "idle" /\ disk0.kind = "ok" /\ loaded.today_post_count >= loaded.today_max_posts)
    => /\ pc = "done"
       /\ exitCode = 0
       /\ obs.gen = 0 /\ obs.fallback = 0 /\ obs.upload = 0 /\ obs.create = 0
       /\ obs.saves = 0
       /\ disk = disk0
       /\ disk.state.today_post_count = disk0.state.today_post_count
       /\ state = loaded

\* a run finds the quota reached by the earlier posts of the day
C1_Witness ==
    /\ pc = "done"
    /\ obs.at = StartTime
    /\ disk0.kind = "ok"
    /\ loaded.today_post_count >= loaded.today_max_posts

\* the post count the state file held when the run loaded it
CountBefore == IF disk0.kind = "ok" THEN disk0.state.today_post_count ELSE 0

\* C2: every persisted state has today_post_count <= today_max_posts <= 15, and a
\* run raises the persisted today_post_count by at most 1.
C2_QuotaInvariant ==
    disk.kind = "ok"
    => /\ disk.state.today_post_count <= disk.state.today_max_posts
       /\ disk.state.today_max_posts <= 15
       /\ disk.state.today_post_count <= CountBefore + 1

\* a post that fills the quota of the day
C2_Witness ==
    /\ pc = "done"
    /\ obs.published
    /\ disk.kind = "ok"
    /\ disk.state.today_post_count = disk.state.today_max_posts
    /\ disk.state.today_post_count = CountBefore + 1

\* C3: after a successful publish the saved state has today_post_count and
\* month_total_posts one above the loaded values, month_image_posts one above iff a
\* media id was uploaded, the slot appended to today_slots_used and last_post_date
\* the current date; a run without a success of create post leaves these fields
\* at their loaded values, in memory and in whatever it saves.
C3_PostSuccess ==
    /\ (pc = "done" /\ obs.published)
       => /\ disk = Written(state)
          /\ state.today_post_count = loaded.today_post_count + 1
          /\ state.month_total_posts = loaded.month_total_posts + 1
          /\ state.month_image_posts =
                loaded.month_image_posts + (IF obs.upload = 1 THEN 1 ELSE 0)
          /\ state.today_slots_used = Append(loaded.today_slots_used, slot)
          /\ state.last_post_date = getJSTDateString(now)
    /\ (pc # "idle" /\ ~obs.published)
       => /\ PostSuccessFields(state) = PostSuccessFields(loaded)
          /\ obs.saves > 0 => disk = Written(state)
          /\ obs.saves = 0 => disk = DiskAfterLoad

\* the second post of a day, with an uploaded image, published after midnight by
\* a run that had loaded the state before midnight
C3_Witness ==
    /\ pc = "done"
    /\ obs.published
    /\ obs.upload = 1
    /\ loaded.today_post_count > 0
    /\ getJSTDateString(now) # getJSTDateString(obs.at)

C5_GenerationLoop ==
    /\ obs.gen <= 3
    /\ obs.gen = obs.errors + obs.invalid + obs.valid
    /\ obs.valid <= 1
    /\ obs.valid = 1
       => /\ pc \notin {"generate", "fallback"}
          /\ obs.fallback = 0
          /\ ~usedFallback
          /\ tweetText # NULL
    /\ pc # "idle" => state.ng_retry_count = loaded.ng_retry_count + obs.invalid
    /\ obs.fallback > 0 => (obs.valid = 0 /\ pc \notin {"generate"})

\* an error, an invalid text, then a valid text that is posted
C5_Witness ==
    /\ pc = "done"
    /\ obs.errors = 1
    /\ obs.invalid = 1
    /\ obs.valid = 1
    /\ obs.published

\* C6: when media upload or create post throws, the run saves the state with the
\* post fields at their loaded values and with this run's ng_retry_count and
\* fallback_used_count increments, and exits with a non-zero code.
C6_PublishFailure ==
    obs.failed
    => /\ pc = "done"
       /\ exitCode # 0
       /\ ~obs.published
       /\ disk = Written(state)
       /\ PostFields(disk.state) = PostFields(loaded)
       /\ disk.state.ng_retry_count = loaded.ng_retry_count + obs.invalid
       /\ disk.state.fallback_used_count =
             loaded.fallback_used_count + (IF usedFallback THEN 1 ELSE 0)

\* create post throws after an uploaded image, three invalid texts and a fallback
C6_Witness ==
    /\ obs.failed
    /\ obs.upload = 1
    /\ obs.create = 1
    /\ obs.invalid = 3
    /\ usedFallback
    /\ loaded.today_post_count > 0

\* C7: a run that finds no publish credentials calls neither media upload nor
\* create post and does not write the state file after loading it, so the file
\* is what loadState left; the run ends with exit code 0.
C7_DryPath ==
    obs.dry
    => /\ pc = "done"
       /\ exitCode = 0
       /\ obs.upload = 0
       /\ obs.create = 0
       /\ obs.saves = 0
       /\ ~obs.published
       /\ disk = DiskAfterLoad
       /\ disk0.kind = "ok" => PostFields(disk.state) = PostFields(disk0.state)

\* a dry path after an invalid text, on a state file that has a post
C7_Witness ==
    /\ obs.dry
    /\ obs.invalid > 0
    /\ tweetText # NULL
    /\ disk0.kind = "ok"
    /\ disk0.state.today_post_count > 0

\* C8: when no generated text was accepted and the fallback selector returns
\* nothing, the run saves the state once and ends with exit code 0 without media
\* upload or create post; fallback_used_count and the post fields keep their
\* loaded values and ng_retry_count has this run's increments.
C8_FallbackExhaustion ==
    (obs.fallback = 1 /\ tweetText = NULL)
    => /\ pc = "done"
       /\ exitCode = 0
       /\ obs.valid = 0
       /\ obs.upload = 0
       /\ obs.create = 0
       /\ ~obs.published
       /\ obs.saves = 1
       /\ disk = Written(state)
       /\ disk.state.fallback_used_count = loaded.fallback_used_count
       /\ PostFields(disk.state) = PostFields(loaded)
       /\ disk.state.ng_retry_count = loaded.ng_retry_count + obs.invalid

\* three invalid texts, then an empty pool
C8_Witness ==
    /\ obs.fallback = 1
    /\ tweetText = NULL
    /\ obs.invalid = 3
    /\ obs.pool = 0
    /\ pc = "done"

\* C9: when the stored last_post_date is not the date of the load (null
\* included), loadState returns today_post_count 0, today_slots_used empty, the
\* three exclusivity flags false, today_skipped false, today_skip_count 0,
\* today_narrative empty, today_max_posts in 8..15 and energy 80.
C9_DayRollover ==
    (pc # "idle" /\ disk0.kind = "ok"
       /\ disk0.state.last_post_date # getJSTDateString(obs.at))
    => /\ loaded.today_post_count = 0
       /\ loaded.today_slots_used = <<>>
       /\ ~loaded.today_morning_posted
       /\ ~loaded.today_goodnight_posted
       /\ ~loaded.today_simple_goodnight_posted
       /\ ~loaded.today_skipped
       /\ loaded.today_skip_count = 0
       /\ loaded.today_narrative = <<>>
       /\ loaded.today_max_posts \in 8..15
       /\ loaded.energy = 80

\* a load on the day after a post
C9_Witness ==
    /\ pc = "decide"
    /\ disk0.kind = "ok"
    /\ disk0.state.last_post_date # NULL
    /\ disk0.state.last_post_date # getJSTDateString(obs.at)
    /\ disk0.state.today_post_count > 0
    /\ disk0.state.energy # 80
    /\ disk0.state.today_narrative # <<>>

\* C10: calling loadState twice in the same day with no post in between gives
\* the same per-day fields: right after a load, another load of the file as it
\* stands gives the per-day fields the first one gave, whatever it rolls.
C10_IdempotentRollover ==
    pc = "decide"
    => \A roll \in DailyMaxRolls :
          PerDayFields(loadState(disk, now, roll).state) = PerDayFields(loaded)

\* the month "YYYY-MM" of the time t
MonthAt(t) == <<DayOf(t) \div DaysPerMonth>>

\* C11: when the month_string of the state file is not the month of the load,
\* loadState returns month_total_posts = 0, month_image_posts = 0 and month_string
\* the current month; when it is the current month, both counters are returned
\* as stored.
C11_MonthRollover ==
    (pc # "idle" /\ disk0.kind = "ok")
    => IF disk0.state.month_string # MonthAt(obs.at)
       THEN /\ loaded.month_total_posts = 0
            /\ loaded.month_image_posts = 0
            /\ loaded.month_string = MonthAt(obs.at)
       ELSE /\ loaded.month_total_posts = disk0.state.month_total_posts
            /\ loaded.month_image_posts = disk0.state.month_image_posts
            /\ loaded.month_string = disk0.state.month_string

\* a load in the month after the one in which the file counted its posts
C11_Witness ==
    /\ pc # "idle"
    /\ disk0.kind = "ok"
    /\ disk0.state.month_string # NULL
    /\ disk0.state.month_string # MonthAt(obs.at)
    /\ disk0.state.month_total_posts > 0
    /\ loaded.month_total_posts = 0

\* C12: within one day the persisted today_skip_count is the number of the day's
\* runs that took the pacing skip path: the tally a skipping run has written is
\* the tally the next run of the day loads, whatever that load rolls.
C12_SkipTracking ==
    (pc = "done" /\ obs.skipped)
    => \A roll \in DailyMaxRolls :
          loadState(disk, now, roll).state.today_skip_count = disk.state.today_skip_count

\* C13: a run whose slot is morning, goodnight or simple_goodnight never takes
\* the pacing skip path, whatever the skip draw, and leaves today_skipped and
\* today_skip_count as they were loaded.
C13_SkipExemption ==
    (pc \notin {"idle", "decide"} /\ slot \in {"morning", "goodnight", "simple_goodnight"})
    => /\ ~obs.skipped
       /\ state.today_skipped = loaded.today_skipped
       /\ state.today_skip_count = loaded.today_skip_count

\* a goodnight run that went on to publish although a draw below the skip
\* probability was possible
C13_Witness ==
    /\ pc = "done" /\ slot = "goodnight" /\ obs.published
    /\ TRUE \in SkipDraws(loaded, obs.at)

\* the number of entries of today_slots_used that are the slot sl
SlotUses(s, sl) == Cardinality({i \in DOMAIN s.today_slots_used : s.today_slots_used[i] = sl})

\* C14: at most one morning post is made per day: today_slots_used never holds
\* morning twice, a run whose state has today_morning_posted set gets no morning
\* from determineSlot at any hour, and after a morning post the next run of the
\* day loads a state for which determineSlot returns no morning.
C14_MorningExclusivity ==
    (pc # "idle")
    => /\ SlotUses(state, "morning") <= 1
       /\ (pc \in {"decide", "done"} /\ state.today_morning_posted)
          => \A h \in 0..(HoursPerDay - 1) : "morning" \notin SlotChoices(h, state)
       /\ (pc = "done" /\ obs.published /\ slot = "morning")
          => \A roll \in DailyMaxRolls :
                "morning" \notin SlotChoices(getJSTHour(now), loadState(disk, now, roll).state)

\* a morning post was published at hour 7 and the flag is on the disk
C14_Witness ==
    /\ pc = "done" /\ obs.published /\ slot = "morning"
    /\ getJSTHour(now) = 7
    /\ disk.state.today_morning_posted
    /\ SlotUses(disk.state, "morning") = 1

\* C15: once a goodnight or a simple_goodnight post has been made today,
\* determineSlot returns neither of the two slots for the rest of the day.
C15_NightClosingExclusivity ==
    (pc # "idle" /\ (state.today_goodnight_posted \/ state.today_simple_goodnight_posted))
    => \A h \in 0..(HoursPerDay - 1) :
          SlotChoices(h, state) \cap {"goodnight", "simple_goodnight"} = {}

\* C16: a run whose slot is morning or simple_goodnight selects no image and
\* calls no media upload; when it publishes, the post record has hasImage false
\* and month_image_posts is the loaded one, in memory and on the disk.
C16_NoImageSlots ==
    (pc \notin {"idle", "decide"} /\ slot \in {"morning", "simple_goodnight"})
    => /\ ~imagePath
       /\ ~mediaId
       /\ obs.upload = 0
       /\ obs.published
          => /\ ~state.last_posts[1].hasImage
             /\ state.month_image_posts = loaded.month_image_posts
             /\ disk.state.month_image_posts = loaded.month_image_posts
             /\ disk.state.last_image_date = loaded.last_image_date

\* a simple_goodnight post was published although the image draw could have
\* asked for an image
C16_Witness ==
    /\ pc = "done" /\ slot = "simple_goodnight" /\ obs.published
    /\ TRUE \in ImageDraws(loaded)
    /\ state.last_posts[1].slot = "simple_goodnight"

\* C17: after a post whose text came from the generator, the mood held in
\* memory and persisted to the disk is the mood the generator returned.
C17_GeneratorMood ==
    (pc = "done" /\ obs.published /\ ~usedFallback)
    => /\ state.mood = obs.mood
       /\ disk.state.mood = obs.mood

\* a text that passes the length, emoji, forbidden-word and similarity checks
\* against the posts of s and contains no logistics word
CompliantButPlain(text, s) ==
    /\ Len(text) <= 140
    /\ countEmoji(text) <= 2
    /\ checkForbiddenWords(text)
    /\ checkSimilarity(text, s.last_posts, 600).valid
    /\ \A w \in LOGISTICS_WORDS : ~Includes(text, w)

FailingChecks ==
    LET text == call.text
    IN {c \in {"length", "emoji", "forbidden", "logistics", "similarity"} :
          \/ c = "length" /\ Len(text) > 140
          \/ c = "emoji" /\ Cardinality({i \in 1..Len(text) : text[i] \in EmojiChars}) >= 3
          \/ c = "forbidden"
             /\ \E w \in FORBIDDEN_WORDS : Includes(toLowerCase(text), toLowerCase(w))
          \/ c = "logistics"
             /\ call.slot \notin {"morning", "simple_goodnight"}
             /\ \A w \in LOGISTICS_WORDS : ~Includes(text, w)
          \/ c = "similarity"
             /\ \E i \in 1..Len(call.recentPosts) :
                   LET sim == jaccardSimilarity(getBigrams(text),
                                                getBigrams(call.recentPosts[i].text))
                   IN sim[1] * 1000 > 600 * sim[2]}

NonWhitespace(text) == Cardinality({i \in 1..Len(text) : text[i] \notin Whitespace})

\* C20, as claimed: the similarity of every text against itself is 1.
C20_SelfSimilarityOne ==
    (result # NULL /\ result.fn = "jaccardSimilarity" /\ result.other = call.text)
    => result.ret[1] = result.ret[2]

\* C20: the Jaccard similarity of the whitespace-stripped bigram sets of two
\* texts lies in [0,1]; the similarity of a text against itself is 1 when the
\* text has at least two code points that are not whitespace, and 0 when it
\* has fewer; checkSimilarity against an empty history returns maxSimilarity 0,
\* mostSimilar null and valid true.
C20_BigramSimilarityBounds ==
    /\ (result # NULL /\ result.fn = "jaccardSimilarity")
       => /\ result.ret[2] > 0
          /\ 0 <= result.ret[1] /\ result.ret[1] <= result.ret[2]
          /\ result.other = call.text
             => IF NonWhitespace(call.text) >= 2
                THEN result.ret[1] = result.ret[2]
                ELSE result.ret[1] = 0
    /\ (result # NULL /\ result.fn = "checkSimilarity")
       => /\ result.ret.maxSimilarity[2] > 0
          /\ 0 <= result.ret.maxSimilarity[1]
          /\ result.ret.maxSimilarity[1] <= result.ret.maxSimilarity[2]
          /\ call.recentPosts = <<>>
             => result.ret = [valid |-> TRUE, maxSimilarity |-> <<0, 1>>, mostSimilar |-> NULL]

\* a text with whitespace inside compared with itself: similarity 1
C20_Witness ==
    /\ result # NULL /\ result.fn = "jaccardSimilarity"
    /\ result.other = call.text
    /\ call.text = TextSpaced
    /\ result.ret = <<1, 1>>

C22_EnergyBounds ==
    /\ state.energy \in 10..100
    /\ disk.kind = "ok" => disk.state.energy \in 10..100
    /\ (pc = "done" /\ obs.published)
       => /\ state.energy = (IF loaded.energy - 10 < 10 THEN 10 ELSE loaded.energy - 10)
          /\ disk.state.energy = state.energy
    /\ (pc # "idle" /\ ~obs.published)
       => /\ state.energy = loaded.energy
          /\ obs.saves > 0 => disk.state.energy = loaded.energy
    /\ (pc # "idle" /\ disk0.kind = "ok")
       => loaded.energy = (IF disk0.state.last_post_date # getJSTDateString(obs.at)
                           THEN 80 ELSE disk0.state.energy)

\* a post at the floor: energy 10 was loaded and 10 is persisted
C22_Witness ==
    /\ pc = "done" /\ obs.published
    /\ loaded.energy = 10
    /\ disk.state.energy = 10

\* C23: when the fallback pool is not empty, getFallbackTweetForSlot returns a
\* line of the pool and never null, for every slot and every history.
C23_FallbackNonEmpty ==
    (result # NULL /\ result.fn = "getFallbackTweetForSlot" /\ Len(call.tweets) > 0)
    => /\ ~result.isNull
       /\ \E i \in 1..Len(call.tweets) : call.tweets[i] = result.ret

\* a slot none of whose keywords occurs in the pool, and a history that holds
\* the only line of the pool
C23_Witness ==
    /\ result # NULL /\ result.fn = "getFallbackTweetForSlot"
    /\ call.slot = "night_ero"
    /\ call.tweets = <<TextFb>>
    /\ Len(call.recentPosts) = 1 /\ call.recentPosts[1].text = TextFb
    /\ result.ret = TextFb

\* C24: create post is invoked only after the media upload of a selected image
\* has returned a media id, and then with that media id; without a selected
\* image media upload is never invoked and create post has no media id; the
\* post fields of the state change only after create post has returned.
C24_PublishOrdering ==
    /\ ~imagePath => (obs.upload = 0 /\ ~mediaId)
    /\ (pc = "create" \/ obs.create > 0)
       => /\ imagePath <=> mediaId
          /\ obs.upload = (IF imagePath THEN 1 ELSE 0)
    /\ obs.create <= 1
    /\ obs.published => (obs.create = 1 /\ state.last_posts[1].hasImage = imagePath)
    /\ (pc # "idle" /\ ~obs.published) => PostFields(state) = PostFields(loaded)

\* an image was uploaded, then the post was created with its media id, then
\* the state was updated
C24_Witness ==
    /\ pc = "done" /\ obs.published
    /\ imagePath /\ mediaId
    /\ obs.upload = 1 /\ obs.create = 1
    /\ state.last_posts[1].hasImage
    /\ PostFields(state) # PostFields(loaded)

\* the state of C25: pollMediaStatus has sent at most 10 STATUS requests; the
\* call has returned the media id when the last reply had no processing_info or
\* the state succeeded, has thrown when it had state failed or was not OK, and
\* has thrown the timeout error exactly after a 10th reply still in progress;
\* the requests sent are INIT, the APPENDs, FINALIZE and the STATUS requests.
PollingBounded ==
    (result.fn = "uploadMediaChunked" /\ result.statusRequests > 0)
    => /\ result.statusRequests <= 10
       /\ result.last \in {"no processing_info", "succeeded"}
          => (result.outcome = "returned" /\ result.ret = "media_id_string")
       /\ result.last = "failed" => (result.outcome = "thrown" /\ result.error = "failed")
       /\ result.last = "not ok" => (result.outcome = "thrown" /\ result.error = "http")
       /\ result.last \in {"in_progress", "pending"}
          => /\ result.outcome # "returned"
             /\ result.outcome = "thrown"
                => (result.error = "timeout" /\ result.statusRequests = 10)
       /\ result.requests = 1 + call.chunks + 1 + result.statusRequests

\* C25: after FINALIZE reports processing_info, uploadMediaChunked sends at
\* most 10 STATUS requests, returns or throws as the replies say, and always
\* ends.
C25_BoundedMediaPolling ==
    /\ []PollingBounded
    /\ <>(result.outcome # "running")

\* ten replies in progress, then the timeout error
C25_Witness ==
    /\ result.fn = "uploadMediaChunked"
    /\ result.statusRequests = 10
    /\ result.last = "in_progress"
    /\ result.outcome = "thrown" /\ result.error = "timeout"
    /\ result.waited > 0

\* C26: when X_DRY_RUN is 'true', createTweet, createTweetWithMedia and
\* uploadMediaChunked send no request and return a synthesized identifier:
\* a post id that begins with dry_run_, a media id that begins with
\* dry_run_media_.
C26_DryRunMode ==
    call.X_DRY_RUN = "true"
    => /\ result.requests = 0
       /\ result.outcome # "running"
          => /\ result.outcome = "returned"
             /\ call.fn \in {"createTweet", "createTweetWithMedia"} => result.ret = "dry_run_"
             /\ call.fn = "uploadMediaChunked" => result.ret = "dry_run_media_"

\* a dry run of uploadMediaChunked without an access token
C26_Witness ==
    /\ call.X_DRY_RUN = "true" /\ ~call.token
    /\ call.fn = "uploadMediaChunked"
    /\ result.outcome = "returned"
    /\ result.ret = "dry_run_media_"
    /\ result.requests = 0

\* C27: a run that finds the state file corrupt gets from loadState the default
\* state (mood neutral, energy 70, no posts, counters 0, per-day flags false)
\* with created_at the time of the load and today_max_posts in 8..15; loadState
\* leaves the file alone, and the run goes on to the slot decision.
C27_CorruptStateRecovery ==
    (pc # "idle" /\ disk0.kind = "corrupt")
    => /\ loaded.mood = "neutral" /\ loaded.energy = 70
       /\ loaded.last_posts = <<>> /\ loaded.today_slots_used = <<>>
       /\ loaded.today_post_count = 0 /\ loaded.month_total_posts = 0
       /\ loaded.month_image_posts = 0 /\ loaded.today_skip_count = 0
       /\ loaded.ng_retry_count = 0 /\ loaded.fallback_used_count = 0
       /\ ~loaded.today_morning_posted /\ ~loaded.today_goodnight_posted
       /\ ~loaded.today_simple_goodnight_posted /\ ~loaded.today_skipped
       /\ loaded.last_post_date = NULL
       /\ loaded.created_at = getJSTTimestamp(obs.at)
       /\ loaded.today_max_posts \in 8..15
       /\ obs.saves = 0 => disk = disk0
       /\ pc = "done"
          => (obs.skipped \/ obs.dry \/ obs.failed \/ obs.published \/ obs.fallback > 0)

\* a run on a corrupt file went on and published a post
C27_Witness ==
    /\ pc = "done" /\ disk0.kind = "corrupt"
    /\ obs.published
    /\ disk.kind = "ok"
    /\ disk.state.today_post_count = 1
    /\ disk.state.created_at = getJSTTimestamp(obs.at)

\* the two processes overlap: the second loaded before the first saved in its
\* current run, and saved after the first had loaded
Overlap ==
    /\ other.loadRuns = runs /\ other.saveRuns = runs
    /\ other.loadPc = "idle" \/ other.loadSaves = 0
    /\ other.savePc # "idle"

\* C28: when two runs overlap on the state file and both publish, the file is
\* what the one that saved last wrote from the state it had loaded: the
\* persisted today_post_count and month_total_posts are one above the loaded
\* values although two posts were published, and last_posts has one new record,
\* not two.
C28_LostUpdate ==
    (pc = "done" /\ obs.published /\ other.pc = "done" /\ other.published /\ Overlap)
    => /\ disk.state = (IF other.savePc = "done" THEN other.state ELSE state)
       /\ other.loaded.today_post_count = loaded.today_post_count
       /\ other.loaded.month_total_posts = loaded.month_total_posts
       /\ other.loaded.last_posts = loaded.last_posts
       /\ disk.state.today_post_count = loaded.today_post_count + 1
       /\ disk.state.today_post_count < loaded.today_post_count + 2
       /\ disk.state.month_total_posts = loaded.month_total_posts + 1
       /\ disk.state.month_total_posts < loaded.month_total_posts + 2
       /\ Len(disk.state.last_posts) = Len(loaded.last_posts) + 1
       /\ Tail(disk.state.last_posts) = loaded.last_posts

\* both runs loaded a file with one post, both published, the second process
\* saved last and the record of the first one's generated text is gone
C28_Witness ==
    /\ pc = "done" /\ obs.published /\ ~usedFallback
    /\ other.pc = "done" /\ other.published /\ Overlap
    /\ other.savePc = "done"
    /\ loaded.today_post_count = 1
    /\ disk.state.today_post_count = 2
    /\ \A i \in 1..Len(disk.state.last_posts) : disk.state.last_posts[i].text # tweetText

\* the records of last_posts whose timestamp is on the date d
PostsOn(s, d) == {i \in 1..Len(s.last_posts) : SubSeq(s.last_posts[i].timestamp, 1, 2) = d}

\* C29: in every persisted state today_post_count is the number of posts
\* published on the day named by last_post_date, also when the run loaded
\* before midnight and published after it: the state a publishing run has
\* saved counts the posts of the day of its post (counted in last_posts, which
\* still holds every post).
C29_PerDayCount ==
    (pc = "done" /\ obs.published /\ Len(disk.state.last_posts) < 7)
    => disk.state.today_post_count =
          Cardinality(PostsOn(disk.state, disk.state.last_post_date))

\* C30: a run that takes the pacing skip sets today_skipped, adds exactly 1 to
\* today_skip_count, saves once and ends with exit code 0; it calls neither the
\* generator nor the fallback selector nor a publish capability, and every
\* other loaded field but the updated_at stamp of the save is unchanged, in
\* memory and in the file.
C30_SkipPathEffect ==
    obs.skipped
    => /\ pc = "done" /\ exitCode = 0
       /\ state.today_skipped
       /\ state.today_skip_count = loaded.today_skip_count + 1
       /\ obs.saves = 1
       /\ obs.gen = 0 /\ obs.fallback = 0 /\ obs.upload = 0 /\ obs.create = 0
       /\ ~obs.published /\ ~obs.failed /\ ~obs.dry
       /\ tweetText = NULL /\ ~mediaId
       /\ [state EXCEPT !.today_skipped = loaded.today_skipped,
                        !.today_skip_count = loaded.today_skip_count,
                        !.updated_at = loaded.updated_at] = loaded
       /\ disk = Written(state)

\* a skip on a day that already has a post
C30_Witness ==
    /\ obs.skipped /\ pc = "done"
    /\ loaded.today_post_count > 0
    /\ loaded.last_posts # <<>>
    /\ disk.state.today_skip_count = 1
    /\ disk.state.today_post_count = loaded.today_post_count

\* the priority rules of determineSlot: the morning rule, the night-closing rule
MorningRule(hour, s) == ~s.today_morning_posted /\ hour \in {6, 7}

NightRule(hour, s) ==
    /\ hour \in {23, 0}
    /\ ~s.today_goodnight_posted
    /\ ~s.today_simple_goodnight_posted

\* C31: determineSlot returns morning whenever morning has not been posted today
\* and the hour is 6 or 7; otherwise, whenever the hour is 23 or 0 and neither
\* night-closing flag is set, it returns simple_goodnight or goodnight, never a
\* slot of the weighted choice.
C31_SlotPriority ==
    (result # NULL /\ result.fn = "determineSlot") =>
        /\ MorningRule(call.hour, call.state) => result.ret = "morning"
        /\ (~MorningRule(call.hour, call.state) /\ NightRule(call.hour, call.state))
              => result.ret \in {"simple_goodnight", "goodnight"}

\* at 23:00 with no closing post yet, the draw falls through the brief variant,
\* delivery is configured for the hour, and the full variant is returned
C31_Witness ==
    /\ result # NULL
    /\ result.fn = "determineSlot"
    /\ call.hour = 23
    /\ call.config = slotsOverlapping
    /\ NightRule(call.hour, call.state)
    /\ call.r1 >= 500
    /\ result.ret = "goodnight"

\* the positions of the configured slots that qualify at the hour: the hour is
\* among the slot's hours and the slot's own per-day flag is not set
Qualifying(config, hour, s) ==
    {i \in 1..Len(config) :
        /\ hour \in config[i].hours
        /\ config[i].name = "morning" => ~s.today_morning_posted
        /\ config[i].name = "goodnight" => ~s.today_goodnight_posted
        /\ config[i].name = "simple_goodnight" => ~s.today_simple_goodnight_posted}

\* the weight of the qualifying slots at positions up to k
RECURSIVE WeightUpTo(_, _, _)
WeightUpTo(config, Q, k) ==
    IF k = 0 THEN 0
    ELSE WeightUpTo(config, Q, k - 1) + (IF k \in Q THEN config[k].weight ELSE 0)

\* C32: when no priority rule applies, determineSlot returns the first qualifying
\* slot, in configuration order, at which the draw from [0, total weight) minus the
\* weights of the qualifying slots so far is non-positive; with no qualifying slot
\* it returns delivery.
C32_WeightedSlotChoice ==
    (/\ result # NULL
     /\ result.fn = "determineSlot"
     /\ ~MorningRule(call.hour, call.state)
     /\ ~NightRule(call.hour, call.state)) =>
        LET Q     == Qualifying(call.config, call.hour, call.state)
            total == WeightUpTo(call.config, Q, Len(call.config))
            Hit   == {k \in Q : call.r2 * total - 1000 * WeightUpTo(call.config, Q, k) <= 0}
        IN IF Q = {} THEN result.ret = "delivery"
           ELSE /\ Hit # {}
                /\ \E k \in Hit : /\ \A j \in Hit : k <= j
                                  /\ result.ret = call.config[k].name

\* at 08:00 with morning already posted, delivery and commute qualify and the
\* draw passes delivery's weight: commute is returned
C32_Witness ==
    /\ result # NULL
    /\ result.fn = "determineSlot"
    /\ call.config = slotsOverlapping
    /\ call.hour = 8
    /\ call.state.today_morning_posted
    /\ call.r2 = 500
    /\ result.ret = "commute"

\* the minutes between the recorded instant of the last post and the call
Elapsed == (now - call.state.last_post_timestamp_ms) * 60 + call.late

\* C33: calculateSkipProbability returns 5% when no last-post instant is recorded,
\* 3% below 60 minutes since the last post, 8% from 60 to below 120 minutes, and
\* from 120 minutes on 20% when today_skip_count < 2 and 5% otherwise.
C33_SkipProbabilityTable ==
    (result # NULL /\ result.fn = "calculateSkipProbability") =>
        result.ret =
            CASE call.state.last_post_timestamp_ms = 0 -> 50
              [] call.state.last_post_timestamp_ms # 0 /\ Elapsed < 60 -> 30
              [] call.state.last_post_timestamp_ms # 0 /\ Elapsed >= 60 /\ Elapsed < 120 -> 80
              [] call.state.last_post_timestamp_ms # 0 /\ Elapsed >= 120
                   /\ call.state.today_skip_count < 2 -> 200
              [] call.state.last_post_timestamp_ms # 0 /\ Elapsed >= 120
                   /\ call.state.today_skip_count >= 2 -> 50

\* exactly 60 minutes after the last post the probability is 8%
C33_Witness ==
    /\ result # NULL
    /\ result.fn = "calculateSkipProbability"
    /\ call.state.last_post_timestamp_ms # 0
    /\ Elapsed = 60
    /\ result.ret = 80

\* C34: shouldPostImage draws with probability 10% when month_total_posts < 10;
\* otherwise 30% when month_image_posts / month_total_posts is below 8%, 2% when
\* it is at or above 10%, and 10% in between.
C34_ImageDrawTiers ==
    (result # NULL /\ result.fn = "shouldPostImage") =>
        LET total  == call.state.month_total_posts
            images == call.state.month_image_posts
            prob   == CASE total < 10 -> 100
                        [] total >= 10 /\ 100 * images < 8 * total -> 300
                        [] total >= 10 /\ 100 * images >= 10 * total -> 20
                        [] total >= 10 /\ 100 * images >= 8 * total
                             /\ 100 * images < 10 * total -> 100
        IN result.ret = (call.r < prob)

\* 50 posts of which 4 with an image: the ratio is exactly 8% and a draw of
\* 0.1 is not below the 10% probability
C34_Witness ==
    /\ result # NULL
    /\ result.fn = "shouldPostImage"
    /\ call.state.month_total_posts = 50
    /\ call.state.month_image_posts = 4
    /\ call.r = 100
    /\ result.ret = FALSE

\* the lines of the pool that contain a keyword of the slot
KeywordMatching(sl, tweets) ==
    {tw \in Range(tweets) : \E kw \in slotKeywords(sl) : Includes(tw, kw)}

\* no recent post has a bigram similarity above 0.5 with the text
Dissimilar(text, recentPosts) ==
    \A i \in 1..Len(recentPosts) :
        ~FracGt(jaccardSimilarity(getBigrams(text), getBigrams(recentPosts[i].text)),
                <<1, 2>>)

\* C35: getFallbackTweetForSlot returns a line of the keyword-matching subset of
\* the pool when that subset is not empty, otherwise a line of the whole pool; and
\* when some line of the chosen set has no similarity above 0.5 with the recent
\* posts, the returned line has none either.
C35_FallbackPrefersDissimilar ==
    (result # NULL /\ result.fn = "getFallbackTweetForSlot" /\ Len(call.tweets) > 0) =>
        LET matching == KeywordMatching(call.slot, call.tweets)
            chosen   == IF matching # {} THEN matching ELSE Range(call.tweets)
        IN /\ ~result.isNull
           /\ result.ret \in chosen
           /\ (\E tw \in chosen : Dissimilar(tw, call.recentPosts))
                 => Dissimilar(result.ret, call.recentPosts)

\* two delivery lines, the first of which is the last post: the other is returned
C35_Witness ==
    /\ result # NULL /\ result.fn = "getFallbackTweetForSlot"
    /\ call.slot = "delivery"
    /\ call.tweets = <<TextFb, TextOk>>
    /\ Len(call.recentPosts) = 1 /\ call.recentPosts[1].text = TextFb
    /\ ~Dissimilar(TextFb, call.recentPosts)
    /\ result.ret = TextOk

\* C36: in every persisted state today_slots_used is as long as today_post_count;
\* against the file a run found, the file it leaves has today_slots_used
\* unchanged, emptied by the day rollover of its load, or extended (after that
\* rollover, if any) by the slot of its successful post and by nothing else.
C36_SlotsUsedConsistency ==
    /\ disk.kind = "ok" =>
          Len(disk.state.today_slots_used) = disk.state.today_post_count
    /\ pc # "idle" =>
          LET old    == disk0.state.today_slots_used
              rolled == \/ disk0.kind # "ok"
                        \/ ~isSameJSTDay(disk0.state.last_post_date, obs.at)
              new    == disk.state.today_slots_used
          IN \/ new = old
             \/ new = <<>> /\ rolled
             \/ /\ obs.published
                /\ new = Append(IF rolled THEN <<>> ELSE old, slot)

\* a post on the day after the last one: the file held one slot of yesterday
\* and holds the one slot of today's post
C36_Witness ==
    /\ pc = "done" /\ obs.published
    /\ disk0.kind = "ok"
    /\ Len(disk0.state.today_slots_used) = 1
    /\ ~isSameJSTDay(disk0.state.last_post_date, obs.at)
    /\ disk.state.today_slots_used = <<slot>>
    /\ disk.state.today_post_count = 1

\* C37: a run in which every backend request failed has, once its generation
\* loop is over, sent exactly 9 requests: 3 attempts of main, each of which called
\* generateTweet, which sent 3 requests and threw; main counts 3 attempts.
C37_NestedRetries ==
    /\ result.requests <= (MAX_GENERATION_RETRIES + 1) * (maxRetries + 1)
    /\ (pc \notin {"idle", "decide", "generate"} /\ obs.gen > 0 /\ result.answers = 0) =>
          /\ result.requests = 9
          /\ obs.gen = 3
          /\ obs.errors = 3
          /\ attempt = 3

\* the fallback is reached after 9 failed requests
C37_Witness ==
    /\ pc = "fallback"
    /\ result.answers = 0
    /\ result.requests = 9
    /\ obs.errors = 3

C39_HashtagsKeepLimit ==
    /\ (result.by # "none" /\ Len(result.tweet) <= 140) =>
          LET both   == result.tweet \o <<"\n">> \o JoinTags(result.hashtags)
              single == result.tweet \o <<"\n">> \o REQUIRED_HASHTAG
          IN /\ Len(result.ret) <= 140
             /\ SubSeq(result.ret, 1, Len(result.tweet)) = result.tweet
             /\ result.hashtags[1] = REQUIRED_HASHTAG
             /\ result.ret = (IF Len(both) <= 140 THEN both
                              ELSE IF Len(single) <= 140 THEN single
                              ELSE result.tweet)
    /\ (pc = "done" /\ obs.published) =>
          /\ result.by = "run"
          /\ result.tweet = tweetText
          /\ disk.state.last_posts[1].text = tweetText
          /\ disk.state.last_posts[1].text # result.ret

\* 133 code points and two drawn tags of 8 code points with their separators:
\* only the mandatory tag is appended, 138 code points in all
C39_Witness ==
    /\ result.by = "call"
    /\ Len(result.tweet) = 133
    /\ Len(result.hashtags) = 2
    /\ Len(result.ret) = 138
    /\ result.ret = result.tweet \o <<"\n">> \o REQUIRED_HASHTAG

====
